---------------------------- MODULE Spec2Model ----------------------------
(***************************************************************************)
(* httpsplitter: the bounded stream reader (src/src/reader.rs) and the     *)
(* request / response packet engines (src/src/packet.rs, src/src/obj/).    *)
(*                                                                         *)
(* Text and byte strings are sequences of one-character strings, so that   *)
(* splitting, trimming, case folding and number parsing are computed        *)
(* character by character as the code computes them.                       *)
(***************************************************************************)
EXTENDS Integers, Sequences, FiniteSets, TLC

VARIABLES
    \* ---- the byte source and one reader call (reader.rs)
    stream,          \* every byte the source will ever deliver
    pos,             \* number of bytes the source has delivered so far
    pc,              \* where the reader is: idle, or inside one of its loops
    buffer,          \* read_until_crlf / read_until_double_crlf: buffer
    header_buffer,   \* read_full_packet: header_buffer
    content_length,  \* read_full_packet: content_length
    body_buffer,     \* read_full_packet: body_buffer
    total_read,      \* read_full_packet: total_read
    ret,             \* what the last call returned
    call_start,      \* pos when the running (or last) call was entered
    calls,           \* number of calls made on this source
    log,             \* concatenation of all bytes handed back by Ok returns
    \* ---- one use of the packet engines (packet.rs)
    req_packet,      \* Option<RequestPacket>: the packet in hand
    wire,            \* Option<String>: the wire text in hand
    req_parsed,      \* Option of RequestPacketBuilder::try_from_str(wire)
    req_built,       \* Option of req_parsed's builder .try_build()
    res_parsed,      \* Option of ResponsePacketBuilder::try_from_str(wire)
    cycles,          \* number of times a parsed packet was rendered again
    \* ---- builders assembled field by field, and response packets
    req_builder,     \* Option<RequestPacketBuilder>: the builder in hand
    res_builder,     \* Option<ResponsePacketBuilder>: the builder in hand
    res_built,       \* Option of res_builder.try_build()
    res_packet,      \* Option<ResponsePacket>: the packet in hand
    res_wire,        \* Option of res_packet.try_to_string()
    setter_calls,    \* the setter calls made on the builder in hand, in order
    \* ---- one use of the lexical value types (obj/)
    line_in,         \* Option<String>: the line in hand
    version_res,     \* Option of Version::try_from_first_req_line(line_in)
    code_res,        \* Option of StatusCode::try_from_first_res_line(line_in)
    header_res,      \* Option of Header::try_from(line_in)
    code_in,         \* Option<StatusCode>: the status code in hand
    int_in,          \* Option<usize>: the integer in hand
    int_code         \* Option of StatusCode::try_from_int(int_in)

readerVars == <<stream, pos, pc, buffer, header_buffer, content_length,
                body_buffer, total_read, ret, call_start, calls, log>>

packetVars == <<req_packet, wire, req_parsed, req_built, res_parsed, cycles>>

builderVars == <<req_builder, res_builder, res_built, res_packet, res_wire,
                 setter_calls>>

objVars == <<line_in, version_res, code_res, header_res, code_in, int_in,
            int_code>>

vars == <<readerVars, packetVars, builderVars, objVars>>

---------------------------------------------------------------------------
(* Bounds *)

\* longest byte stream offered to the delimiter scans
MaxStreamLen == 6
\* most reader calls made on one source
MaxCalls == 2
\* most header lines in a generated header block
MaxLines == 2
\* most headers of a packet in hand, most header lines of a text in hand
MaxHeaders == 2
\* most tokens of a generated line
MaxTokens == 4
\* largest integer offered to StatusCode::try_from_int
MaxInt == 600
\* most times a parsed packet is rendered and parsed again
MaxCycles == 3
\* most setter calls made on one builder
MaxSetterCalls == 4

---------------------------------------------------------------------------
(* Characters *)

CR == "\r"
LF == "\n"
SP == " "
TAB == "\t"
COLON == ":"
\* a byte that can occur in no UTF-8 encoding (0xFF)
BAD == "0xFF"
\* the zero byte vec![0u8; n] fills a fresh buffer with
NUL == "0x00"

CRLF == <<CR, LF>>
CRLFCRLF == <<CR, LF, CR, LF>>

\* Option<T>: None is the empty sequence, Some(x) the one-element sequence
None == <<>>
Some(x) == <<x>>

Min(a, b) == IF a < b THEN a ELSE b

---------------------------------------------------------------------------
(* String primitives of the standard library, as the code uses them *)

\* slice == &s[s.len() - suffix.len()..] compared with suffix, guarded by len
EndsWith(s, suffix) ==
    /\ Len(s) >= Len(suffix)
    /\ SubSeq(s, Len(s) - Len(suffix) + 1, Len(s)) = suffix

\* str::starts_with
StartsWith(s, prefix) ==
    /\ Len(s) >= Len(prefix)
    /\ SubSeq(s, 1, Len(prefix)) = prefix

\* index of the first occurrence of character c in s, 0 when there is none
IndexOf(s, c) ==
    IF \E i \in 1..Len(s) : s[i] = c
    THEN CHOOSE i \in 1..Len(s) : s[i] = c /\ \A j \in 1..(i-1) : s[j] # c
    ELSE 0

\* index of the first occurrence of the substring pat in s, 0 when none
Find(s, pat) ==
    LET hit(i) == SubSeq(s, i, i + Len(pat) - 1) = pat
        range == 1..(Len(s) - Len(pat) + 1)
    IN IF \E i \in range : hit(i)
       THEN CHOOSE i \in range : hit(i) /\ \A j \in 1..(i-1) : ~hit(j)
       ELSE 0

UpperCase == <<"A","B","C","D","E","F","G","H","I","J","K","L","M",
               "N","O","P","Q","R","S","T","U","V","W","X","Y","Z">>
LowerCase == <<"a","b","c","d","e","f","g","h","i","j","k","l","m",
               "n","o","p","q","r","s","t","u","v","w","x","y","z">>

\* u8::to_ascii_lowercase
LowerChar(c) ==
    IF \E i \in 1..Len(UpperCase) : UpperCase[i] = c
    THEN LowerCase[CHOOSE i \in 1..Len(UpperCase) : UpperCase[i] = c]
    ELSE c

\* str::to_ascii_lowercase
to_ascii_lowercase(s) == [i \in 1..Len(s) |-> LowerChar(s[i])]

\* char::is_whitespace on the characters that occur here
IsWhitespace(c) == c \in {SP, TAB, CR, LF}

RECURSIVE TrimStart(_)
TrimStart(s) ==
    IF s # <<>> /\ IsWhitespace(Head(s)) THEN TrimStart(Tail(s)) ELSE s

RECURSIVE TrimEnd(_)
TrimEnd(s) ==
    IF s # <<>> /\ IsWhitespace(s[Len(s)])
    THEN TrimEnd(SubSeq(s, 1, Len(s) - 1)) ELSE s

\* str::trim
Trim(s) == TrimEnd(TrimStart(s))

\* str::lines: split after every \n; each piece loses its \n and then one \r
StripLineEnd(piece) ==
    IF piece # <<>> /\ piece[Len(piece)] = CR
    THEN SubSeq(piece, 1, Len(piece) - 1) ELSE piece

RECURSIVE Lines(_)
Lines(s) ==
    IF s = <<>> THEN <<>>
    ELSE LET i == IndexOf(s, LF)
         IN IF i = 0 THEN <<s>>
            ELSE <<StripLineEnd(SubSeq(s, 1, i - 1))>>
                 \o Lines(SubSeq(s, i + 1, Len(s)))

\* String::from_utf8(..).is_ok(): every other byte of the model is ASCII
IsUtf8(bytes) == \A i \in 1..Len(bytes) : bytes[i] # BAD

Digits == <<"0","1","2","3","4","5","6","7","8","9">>
IsDigit(c) == \E i \in 1..Len(Digits) : Digits[i] = c
DigitVal(c) == (CHOOSE i \in 1..Len(Digits) : Digits[i] = c) - 1

RECURSIVE DecimalValue(_)
DecimalValue(ds) ==
    IF ds = <<>> THEN 0
    ELSE 10 * DecimalValue(SubSeq(ds, 1, Len(ds) - 1)) + DigitVal(ds[Len(ds)])

ParseUsize_or_zero(s) ==
    LET ds == IF s # <<>> /\ Head(s) = "+" THEN Tail(s) ELSE s
    IN IF ds = <<>> \/ \E i \in 1..Len(ds) : ~IsDigit(ds[i])
       THEN [ok |-> TRUE, val |-> 0]
       ELSE [ok |-> TRUE, val |-> DecimalValue(ds)]

\* str::parse::<usize>: empty fails, a lone sign fails, one leading '+' is
\* skipped, '-' is no digit of an unsigned type, every other character must
\* be a decimal digit.  (Values stay far below usize::MAX here.)
ParseUsize(s) ==
    LET ds == IF s # <<>> /\ Head(s) = "+" THEN Tail(s) ELSE s
    IN IF ds = <<>> \/ \E i \in 1..Len(ds) : ~IsDigit(ds[i])
       THEN [ok |-> FALSE, val |-> 0]
       ELSE [ok |-> TRUE, val |-> DecimalValue(ds)]

---------------------------------------------------------------------------
(* The byte source: std::io::Read::read(&mut buf) *)

\* Outcomes of one read into a buffer of n bytes: -1 is Err(e); 0 is end of
\* stream; otherwise any count from 1 up to what fits and what is left (a
\* reader may deliver fewer bytes than asked for).
SourceRead(n) ==
    {-1} \cup (IF pos = Len(stream) \/ n = 0 THEN {0}
               ELSE 1..Min(n, Len(stream) - pos))

\* the k bytes a read of k bytes delivers
Delivered(k) == SubSeq(stream, pos + 1, pos + k)

\* io::Result of a reader call: Ok(Vec<u8>) of the scans has no body part,
\* Ok((String, Option<String>)) of read_full_packet has; Err carries its kind
Ok(bytes, body) == [kind |-> "Ok", bytes |-> bytes, body |-> body]
Err(kind) == [kind |-> kind, bytes |-> <<>>, body |-> None]

\* the function a loop position belongs to
OpOf(at) ==
    IF at \in {"read_headers", "read_body"} THEN "read_full_packet" ELSE at

\* a return value, tagged with the function that returned it
Returned(op, r) ==
    [op |-> op, kind |-> r.kind, bytes |-> r.bytes, body |-> r.body]
NoReturn == Returned("none", [kind |-> "NoReturn", bytes |-> <<>>, body |-> None])

\* the bytes a return value hands to the caller
Handed(r) == r.bytes \o (IF r.body = None THEN <<>> ELSE r.body[1])

\* the call returns r to its caller; its locals are dropped
Return(r) ==
    /\ pc' = "idle"
    /\ ret' = Returned(OpOf(pc), r)
    /\ log' = IF r.kind = "Ok" THEN log \o Handed(r) ELSE log
    /\ buffer' = <<>>
    /\ header_buffer' = <<>>
    /\ content_length' = 0
    /\ body_buffer' = <<>>
    /\ total_read' = 0

\* a caller makes at most MaxCalls calls on a source, one at a time, and
\* gives the source up once a call has failed
MayCall ==
    /\ pc = "idle"
    /\ calls < MaxCalls
    /\ ret.kind \in {"NoReturn", "Ok"}

---------------------------------------------------------------------------
(* read_until_crlf *)

\* len >= 2 && buffer[len - 2] == b'\r' && buffer[len - 1] == b'\n'
found_crlf_last_byte(buf) == Len(buf) >= 1 /\ buf[Len(buf)] = LF
found_crlf(buf) ==
    Len(buf) >= 2 /\ buf[Len(buf) - 1] = CR /\ buf[Len(buf)] = LF

\* Ok(buffer): the collected bytes, terminator included
scan_result_stripped(buf) ==
    IF found_crlf(buf) THEN SubSeq(buf, 1, Len(buf) - 2) ELSE buf
scan_result(buf) == buf

read_until_crlf_call ==
    /\ MayCall
    /\ pc' = "read_until_crlf"
    /\ buffer' = <<>>
    /\ call_start' = pos
    /\ calls' = calls + 1
    /\ UNCHANGED <<stream, pos, header_buffer, content_length, body_buffer,
                   total_read, ret, log>>
    /\ UNCHANGED <<packetVars, builderVars, objVars>>

\* one pass of `while reader.read(&mut temp)? == 1 { ... }`
read_until_crlf_pass(n) ==
    /\ pc = "read_until_crlf"
    /\ \/ /\ n = -1                       \* `?` propagates the error
          /\ Return(Err("SourceError"))
          /\ pos' = pos
       \/ /\ n = 1
          /\ pos' = pos + 1
          /\ LET pushed == buffer \o Delivered(1)
             IN IF found_crlf(pushed)
                THEN Return(Ok(scan_result(pushed), None))  \* break
                ELSE /\ buffer' = pushed
                     /\ UNCHANGED <<pc, ret, log, header_buffer,
                                    content_length, body_buffer, total_read>>
       \/ /\ n = 0                        \* source exhausted: Ok(buffer)
          /\ Return(Ok(scan_result(buffer), None))
          /\ pos' = pos
    /\ UNCHANGED <<stream, call_start, calls>>
    /\ UNCHANGED <<packetVars, builderVars, objVars>>

\* the read asks for one byte
read_until_crlf_loop == \E n \in SourceRead(1) : read_until_crlf_pass(n)

---------------------------------------------------------------------------
(* read_until_double_crlf *)

\* len >= 4 && the last four bytes are \r \n \r \n
found_double_crlf(buf) ==
    /\ Len(buf) >= 4
    /\ buf[Len(buf) - 3] = CR
    /\ buf[Len(buf) - 2] = LF
    /\ buf[Len(buf) - 1] = CR
    /\ buf[Len(buf)] = LF

read_until_double_crlf_call ==
    /\ MayCall
    /\ pc' = "read_until_double_crlf"
    /\ buffer' = <<>>
    /\ call_start' = pos
    /\ calls' = calls + 1
    /\ UNCHANGED <<stream, pos, header_buffer, content_length, body_buffer,
                   total_read, ret, log>>
    /\ UNCHANGED <<packetVars, builderVars, objVars>>

read_until_double_crlf_pass(n) ==
    /\ pc = "read_until_double_crlf"
    /\ \/ /\ n = -1
          /\ Return(Err("SourceError"))
          /\ pos' = pos
       \/ /\ n = 1
          /\ pos' = pos + 1
          /\ LET pushed == buffer \o Delivered(1)
             IN IF found_double_crlf(pushed)
                THEN Return(Ok(scan_result(pushed), None))  \* break
                ELSE /\ buffer' = pushed
                     /\ UNCHANGED <<pc, ret, log, header_buffer,
                                    content_length, body_buffer, total_read>>
       \/ /\ n = 0
          /\ Return(Ok(scan_result(buffer), None))
          /\ pos' = pos
    /\ UNCHANGED <<stream, call_start, calls>>
    /\ UNCHANGED <<packetVars, builderVars, objVars>>

\* the read asks for one byte
read_until_double_crlf_loop ==
    \E n \in SourceRead(1) : read_until_double_crlf_pass(n)

---------------------------------------------------------------------------
(* read_full_packet *)

ContentLengthPrefix ==
    <<"c","o","n","t","e","n","t","-","l","e","n","g","t","h",COLON>>

\* header_buffer.len() >= 4 && &header_buffer[len - 4..] == b"\r\n\r\n"
header_end_found(hb) ==
    Len(hb) >= 4 /\ SubSeq(hb, Len(hb) - 3, Len(hb)) = CRLFCRLF

content_length_line_last(headers_str) ==
    LET ls == Lines(headers_str)
        hit(i) == StartsWith(to_ascii_lowercase(ls[i]), ContentLengthPrefix)
    IN IF \E i \in 1..Len(ls) : hit(i)
       THEN Some(ls[CHOOSE i \in 1..Len(ls) :
                        hit(i) /\ \A j \in (i+1)..Len(ls) : ~hit(j)])
       ELSE None

\* headers_str.lines().find(|line| line.to_ascii_lowercase()
\*                                     .starts_with("content-length:"))
content_length_line(headers_str) ==
    LET ls == Lines(headers_str)
        hit(i) == StartsWith(to_ascii_lowercase(ls[i]), ContentLengthPrefix)
    IN IF \E i \in 1..Len(ls) : hit(i)
       THEN Some(ls[CHOOSE i \in 1..Len(ls) :
                        hit(i) /\ \A j \in 1..(i-1) : ~hit(j)])
       ELSE None

\* content_length_line.splitn(2, ':').collect::<Vec<&str>>().get(1)
\*     .map(|s| s.trim())
size_str(line) ==
    LET i == IndexOf(line, COLON)
    IN IF i = 0 THEN None
       ELSE Some(Trim(SubSeq(line, i + 1, Len(line))))

\* vec![0u8; n]
Zeroed(n) == [i \in 1..n |-> NUL]

FinishBody_empty_is_none(headers_str, body) ==
    IF ~IsUtf8(body) THEN Return(Err("InvalidData"))
    ELSE IF body = <<>> THEN Return(Ok(headers_str, None))
    ELSE Return(Ok(headers_str, Some(body)))

\* Some(String::from_utf8(body_buffer)?) and Ok((headers_str, body))
FinishBody(headers_str, body) ==
    IF IsUtf8(body) THEN Return(Ok(headers_str, Some(body)))
    ELSE Return(Err("InvalidData"))

\* everything read_full_packet does between leaving the header loop with
\* header_buffer = hb and its next read of the source (or its return)
AfterHeaders(hb) ==
    IF ~header_end_found(hb)
    THEN Return(Err("UnexpectedEof"))
    ELSE IF ~IsUtf8(hb)
    THEN Return(Err("InvalidData"))
    ELSE LET line == content_length_line(hb)
         IN IF line = None
            THEN Return(Ok(hb, None))
            ELSE LET sz == size_str(line[1])
                     n == IF sz = None THEN [ok |-> FALSE, val |-> 0]
                          ELSE ParseUsize(sz[1])
                 IN IF ~n.ok
                    THEN Return(Err("InvalidData"))
                    ELSE IF n.val = 0      \* while 0 < 0: the loop is skipped
                    THEN FinishBody(hb, Zeroed(0))
                    ELSE /\ pc' = "read_body"
                         /\ header_buffer' = hb
                         /\ content_length' = n.val
                         /\ body_buffer' = Zeroed(n.val)
                         /\ total_read' = 0
                         /\ UNCHANGED <<ret, log, buffer>>

read_full_packet_call ==
    /\ MayCall
    /\ pc' = "read_headers"
    /\ header_buffer' = <<>>
    /\ call_start' = pos
    /\ calls' = calls + 1
    /\ UNCHANGED <<stream, pos, buffer, content_length, body_buffer,
                   total_read, ret, log>>
    /\ UNCHANGED <<packetVars, builderVars, objVars>>

\* one pass of the header loop `while reader.read(&mut temp)? == 1 { ... }`
read_headers_pass(n) ==
    /\ pc = "read_headers"
    /\ \/ /\ n = -1
          /\ Return(Err("SourceError"))
          /\ pos' = pos
       \/ /\ n = 1
          /\ pos' = pos + 1
          /\ LET pushed == header_buffer \o Delivered(1)
             IN IF header_end_found(pushed)
                THEN AfterHeaders(pushed)          \* break
                ELSE /\ header_buffer' = pushed
                     /\ UNCHANGED <<pc, ret, log, buffer, content_length,
                                    body_buffer, total_read>>
       \/ /\ n = 0
          /\ AfterHeaders(header_buffer)
          /\ pos' = pos
    /\ UNCHANGED <<stream, call_start, calls>>
    /\ UNCHANGED <<packetVars, builderVars, objVars>>

\* the read asks for one byte
read_headers_loop == \E n \in SourceRead(1) : read_headers_pass(n)

\* if bytes_read == 0 { return Err(UnexpectedEof, "Expected {} bytes ...") }
incomplete_body_partial ==
    Return(Ok(header_buffer, Some(SubSeq(body_buffer, 1, total_read))))
\* a body loop that tries again when the source has nothing more
incomplete_body_retry ==
    UNCHANGED <<pc, ret, log, buffer, header_buffer, content_length,
                body_buffer, total_read>>
incomplete_body == Return(Err("UnexpectedEof"))

\* a read that writes at the start of the body buffer every time
FillBody_from_start(buf, at, bytes) ==
    bytes \o SubSeq(buf, Len(bytes) + 1, Len(buf))

\* reader.read(&mut body_buffer[total_read..]): the bytes delivered are
\* written behind the total_read bytes already there
FillBody(buf, at, bytes) ==
    SubSeq(buf, 1, at) \o bytes \o SubSeq(buf, at + Len(bytes) + 1, Len(buf))

\* one pass of the body loop `while total_read < content_length { ... }`
read_body_pass(n) ==
    /\ pc = "read_body"
    /\ \/ /\ n = -1
          /\ Return(Err("SourceError"))
          /\ pos' = pos
       \/ /\ n = 0
          /\ incomplete_body
          /\ pos' = pos
       \/ /\ n > 0
          /\ pos' = pos + n
          /\ LET filled == FillBody(body_buffer, total_read, Delivered(n))
             IN IF total_read + n < content_length
                THEN /\ body_buffer' = filled
                     /\ total_read' = total_read + n
                     /\ UNCHANGED <<pc, ret, log, buffer, header_buffer,
                                    content_length>>
                ELSE FinishBody(header_buffer, filled)
    /\ UNCHANGED <<stream, call_start, calls>>
    /\ UNCHANGED <<packetVars, builderVars, objVars>>

\* the read asks for what is left of the body buffer
read_body_loop ==
    \E n \in SourceRead(content_length - total_read) : read_body_pass(n)

---------------------------------------------------------------------------
(* Text splitting and joining used by the packet engines *)

RECURSIVE SplitCRLF(_)
\* s.split("\r\n").collect(): the text between the CRLFs; never empty
SplitCRLF(s) ==
    LET i == Find(s, CRLF)
    IN IF i = 0 THEN <<s>>
       ELSE <<SubSeq(s, 1, i - 1)>> \o SplitCRLF(SubSeq(s, i + 2, Len(s)))

RECURSIVE JoinCRLF(_)
\* lines.join("\r\n"): a CRLF between neighbours, none at the ends
JoinCRLF(lines) ==
    IF lines = <<>> THEN <<>>
    ELSE IF Len(lines) = 1 THEN lines[1]
    ELSE lines[1] \o CRLF \o JoinCRLF(Tail(lines))

RECURSIVE SplitWhitespace(_)
\* str::split_whitespace: the maximal runs of non-whitespace characters
SplitWhitespace(s) ==
    LET t == TrimStart(s)
    IN IF t = <<>> THEN <<>>
       ELSE LET ws == {i \in 1..Len(t) : IsWhitespace(t[i])}
                end == IF ws = {} THEN Len(t)
                       ELSE (CHOOSE i \in ws : \A j \in ws : i <= j) - 1
            IN <<SubSeq(t, 1, end)>>
               \o SplitWhitespace(SubSeq(t, end + 1, Len(t)))

\* lines.contains(&"")
Contains(lines, x) == \E i \in 1..Len(lines) : lines[i] = x

\* lines.iter().position(|x| *x == "").expect(..): the index, counted from
\* 0 as in the code, of the first element equal to x (one exists)
Position(lines, x) ==
    (CHOOSE i \in 1..Len(lines) :
        lines[i] = x /\ \A j \in 1..(i-1) : lines[j] # x) - 1

RECURSIVE IntToString(_)
\* format!("{}", n) of a usize
IntToString(n) ==
    IF n < 10 THEN <<Digits[n + 1]>>
    ELSE IntToString(n \div 10) \o <<Digits[(n % 10) + 1]>>

---------------------------------------------------------------------------
(* PacketErr, and Result values of the packet engines *)

PacketErr(name) == [name |-> name, line |-> <<>>]
MalformedHeader(line) == [name |-> "MalformedHeader", line |-> line]
NoErr == PacketErr("none")

Success(v) == [ok |-> TRUE, val |-> v, err |-> NoErr]
\* a failure carries the placeholder d where a success carries its value
Failure(e, d) == [ok |-> FALSE, val |-> d, err |-> e]

---------------------------------------------------------------------------
(* Version *)

Versions == {"V0_9", "V1_0", "V1_1"}

HTTP_1_0 == <<"H","T","T","P","/","1",".","0">>
HTTP_1_1 == <<"H","T","T","P","/","1",".","1">>

\* a to_string that writes a literal for V0_9 as well
Version_to_string_http09(v) ==
    CASE v = "V0_9" -> <<"H","T","T","P","/","0",".","9">>
      [] v = "V1_0" -> HTTP_1_0
      [] v = "V1_1" -> HTTP_1_1

\* Version::to_string and Display for Version
Version_to_string(v) ==
    CASE v = "V0_9" -> <<>>
      [] v = "V1_0" -> HTTP_1_0
      [] v = "V1_1" -> HTTP_1_1

\* a version parse that looks at the third token of any longer line
Version_try_from_first_req_line_lenient(first_line) ==
    LET parts == SplitWhitespace(Trim(first_line))
    IN IF Len(parts) = 2 THEN Success("V0_9")
       ELSE IF Len(parts) < 3
       THEN Failure(PacketErr("FirstLineWordCountMismatch"), "V0_9")
       ELSE IF parts[3] = HTTP_1_1 THEN Success("V1_1")
       ELSE IF parts[3] = HTTP_1_0 THEN Success("V1_0")
       ELSE Failure(PacketErr("InvalidHttpVersion"), "V0_9")

\* Version::try_from_first_line, which packet.rs calls under the name
\* try_from_first_req_line
Version_try_from_first_req_line(first_line) ==
    LET parts == SplitWhitespace(Trim(first_line))
    IN IF Len(parts) = 2 THEN Success("V0_9")
       ELSE IF Len(parts) # 3
       THEN Failure(PacketErr("FirstLineWordCountMismatch"), "V0_9")
       ELSE IF parts[3] = HTTP_1_1 THEN Success("V1_1")
       ELSE IF parts[3] = HTTP_1_0 THEN Success("V1_0")
       ELSE Failure(PacketErr("InvalidHttpVersion"), "V0_9")

\* Version::try_from_first_res_line: token 0 of the status line must be a
\* supported version literal
Version_try_from_first_res_line(first_line) ==
    LET parts == SplitWhitespace(first_line)
    IN IF parts # <<>> /\ parts[1] = HTTP_1_1 THEN Success("V1_1")
       ELSE IF parts # <<>> /\ parts[1] = HTTP_1_0 THEN Success("V1_0")
       ELSE Failure(PacketErr("InvalidHttpVersion"), "V0_9")

---------------------------------------------------------------------------
(* Method *)

\* the arms of Method::try_from / Method::to_string
MethodArms == <<
    << <<"G","E","T">>, "Get" >>,
    << <<"H","E","A","D">>, "Head" >>,
    << <<"O","P","T","I","O","N","S">>, "Options" >>,
    << <<"T","R","A","C","E">>, "Trace" >>,
    << <<"P","U","T">>, "Put" >>,
    << <<"D","E","L","E","T","E">>, "Delete" >>,
    << <<"P","O","S","T">>, "Post" >>,
    << <<"P","A","T","C","H">>, "Patch" >>,
    << <<"C","O","N","N","E","C","T">>, "Connect" >> >>

Methods == {MethodArms[i][2] : i \in 1..Len(MethodArms)}

\* Method::try_from
Method_try_from(s) ==
    LET t == Trim(s)
    IN IF \E i \in 1..Len(MethodArms) : MethodArms[i][1] = t
       THEN Some(MethodArms[CHOOSE i \in 1..Len(MethodArms) :
                                MethodArms[i][1] = t][2])
       ELSE None

\* Method::to_string
Method_to_string(m) ==
    MethodArms[CHOOSE i \in 1..Len(MethodArms) : MethodArms[i][2] = m][1]

---------------------------------------------------------------------------
(* Header *)

Header(k, v) == [key |-> k, value |-> v]

\* a header parse that trims the value
Header_try_from_trimmed(value) ==
    LET i == IndexOf(value, COLON)
    IN IF i = 0 THEN Failure(MalformedHeader(value), Header(<<>>, <<>>))
       ELSE Success(Header(SubSeq(value, 1, i - 1),
                           Trim(SubSeq(value, i + 1, Len(value)))))

\* impl TryFrom<&str> for Header: value.split_once(":")
Header_try_from(value) ==
    LET i == IndexOf(value, COLON)
    IN IF i = 0 THEN Failure(MalformedHeader(value), Header(<<>>, <<>>))
       ELSE Success(Header(SubSeq(value, 1, i - 1),
                           SubSeq(value, i + 1, Len(value))))

\* Display for Header: "{}: {}"
Header_fmt(h) == h.key \o <<COLON, SP>> \o h.value

---------------------------------------------------------------------------
(* StatusCode *)

\* StatusCode::as_int: the arms of its match, in order
AsIntArms == <<
    <<"Continue", 100>>,
    <<"SwitchingProtocols", 101>>,
    <<"Processing", 102>>,
    <<"EarlyHints", 103>>,
    <<"Ok", 200>>,
    <<"Created", 201>>,
    <<"Accepted", 202>>,
    <<"NonAuthoritativeInformation", 203>>,
    <<"NoContent", 204>>,
    <<"ResetContent", 205>>,
    <<"PartialContent", 206>>,
    <<"MultiStatus", 207>>,
    <<"AlreadyReported", 208>>,
    <<"IMUsed", 226>>,
    <<"MultipleChoices", 300>>,
    <<"MovedPermanently", 301>>,
    <<"Found", 302>>,
    <<"SeeOther", 303>>,
    <<"NotModified", 304>>,
    <<"UseProxy", 305>>,
    <<"Unused", 306>>,
    <<"TemporaryRedirect", 307>>,
    <<"PermanentRedirect", 308>>,
    <<"BadRequest", 400>>,
    <<"Unauthorized", 401>>,
    <<"PaymentRequired", 402>>,
    <<"Forbidden", 403>>,
    <<"NotFound", 404>>,
    <<"MethodNotAllowed", 405>>,
    <<"NotAcceptable", 406>>,
    <<"ProxyAuthenticationRequired", 407>>,
    <<"RequestTimeout", 408>>,
    <<"Conflict", 409>>,
    <<"Gone", 410>>,
    <<"LengthRequired", 411>>,
    <<"PreconditionFailed", 412>>,
    <<"ContentTooLarge", 413>>,
    <<"UriTooLong", 414>>,
    <<"UnsupportedMediaType", 415>>,
    <<"RangeNotSatisfiable", 416>>,
    <<"ExpectationFailed", 417>>,
    <<"ImATeapot", 418>>,
    <<"MisdirectedRequest", 421>>,
    <<"UnprocessableContent", 422>>,
    <<"Locked", 423>>,
    <<"FailedDependency", 424>>,
    <<"TooEarly", 425>>,
    <<"UpgradeRequired", 426>>,
    <<"PreconditionRequired", 428>>,
    <<"TooManyRequests", 429>>,
    <<"RequestHeaderFieldsTooLarge", 431>>,
    <<"UnavailableForLegalReasons", 451>>,
    <<"InternalServerError", 500>>,
    <<"NotImplemented", 501>>,
    <<"BadGateway", 502>>,
    <<"ServiceUnavailable", 503>>,
    <<"GatewayTimeout", 504>>,
    <<"HttpVersionNotSupported", 505>>,
    <<"VariantAlsoNegotiates", 506>>,
    <<"InsufficientStorage", 507>>,
    <<"LoopDetected", 508>>,
    <<"NotExtended", 510>>,
    <<"NetworkAuthenticationRequired", 511>>
>>

\* StatusCode::try_from_int: the arms of its match, in order
TryFromIntArms == <<
    <<100, "Continue">>,
    <<101, "SwitchingProtocols">>,
    <<102, "Processing">>,
    <<103, "EarlyHints">>,
    <<200, "Ok">>,
    <<201, "Created">>,
    <<202, "Accepted">>,
    <<203, "NonAuthoritativeInformation">>,
    <<204, "NoContent">>,
    <<205, "ResetContent">>,
    <<206, "PartialContent">>,
    <<207, "MultiStatus">>,
    <<208, "AlreadyReported">>,
    <<226, "IMUsed">>,
    <<300, "MultipleChoices">>,
    <<301, "MovedPermanently">>,
    <<302, "Found">>,
    <<303, "SeeOther">>,
    <<304, "NotModified">>,
    <<305, "UseProxy">>,
    <<306, "Unused">>,
    <<307, "TemporaryRedirect">>,
    <<308, "PermanentRedirect">>,
    <<400, "BadRequest">>,
    <<401, "Unauthorized">>,
    <<402, "PaymentRequired">>,
    <<403, "Forbidden">>,
    <<404, "NotFound">>,
    <<405, "MethodNotAllowed">>,
    <<406, "NotAcceptable">>,
    <<407, "ProxyAuthenticationRequired">>,
    <<408, "RequestTimeout">>,
    <<409, "Conflict">>,
    <<410, "Gone">>,
    <<411, "LengthRequired">>,
    <<412, "PreconditionFailed">>,
    <<413, "ContentTooLarge">>,
    <<414, "UriTooLong">>,
    <<415, "UnsupportedMediaType">>,
    <<416, "RangeNotSatisfiable">>,
    <<417, "ExpectationFailed">>,
    <<418, "ImATeapot">>,
    <<421, "MisdirectedRequest">>,
    <<422, "UnprocessableContent">>,
    <<423, "Locked">>,
    <<424, "FailedDependency">>,
    <<425, "TooEarly">>,
    <<426, "UpgradeRequired">>,
    <<428, "PreconditionRequired">>,
    <<429, "TooManyRequests">>,
    <<431, "RequestHeaderFieldsTooLarge">>,
    <<451, "UnavailableForLegalReasons">>,
    <<500, "InternalServerError">>,
    <<501, "NotImplemented">>,
    <<502, "BadGateway">>,
    <<503, "ServiceUnavailable">>,
    <<504, "GatewayTimeout">>,
    <<505, "HttpVersionNotSupported">>,
    <<506, "VariantAlsoNegotiates">>,
    <<507, "InsufficientStorage">>,
    <<508, "LoopDetected">>,
    <<510, "NotExtended">>,
    <<511, "NetworkAuthenticationRequired">>
>>

\* StatusCode::description: the arms of its match, in order
DescriptionArms == <<
    <<"Continue", <<"C","o","n","t","i","n","u","e">>>>,
    <<"SwitchingProtocols", <<"S","w","i","t","c","h","i","n","g",SP,"P","r","o","t","o","c","o","l","s">>>>,
    <<"Processing", <<"P","r","o","c","e","s","s","i","n","g">>>>,
    <<"EarlyHints", <<"E","a","r","l","y",SP,"H","i","n","t","s">>>>,
    <<"Ok", <<"O","K">>>>,
    <<"Created", <<"C","r","e","a","t","e","d">>>>,
    <<"Accepted", <<"A","c","c","e","p","t","e","d">>>>,
    <<"NonAuthoritativeInformation", <<"N","o","n","-","A","u","t","h","o","r","i","t","a","t","i","v","e",SP,"I","n","f","o","r","m","a","t","i","o","n">>>>,
    <<"NoContent", <<"N","o",SP,"C","o","n","t","e","n","t">>>>,
    <<"ResetContent", <<"R","e","s","e","t",SP,"C","o","n","t","e","n","t">>>>,
    <<"PartialContent", <<"P","a","r","t","i","a","l",SP,"C","o","n","t","e","n","t">>>>,
    <<"MultiStatus", <<"M","u","l","t","i","-","S","t","a","t","u","s">>>>,
    <<"AlreadyReported", <<"A","l","r","e","a","d","y",SP,"R","e","p","o","r","t","e","d">>>>,
    <<"IMUsed", <<"I","M",SP,"U","s","e","d">>>>,
    <<"MultipleChoices", <<"M","u","l","t","i","p","l","e",SP,"C","h","o","i","c","e","s">>>>,
    <<"MovedPermanently", <<"M","o","v","e","d",SP,"P","e","r","m","a","n","e","n","t","l","y">>>>,
    <<"Found", <<"F","o","u","n","d">>>>,
    <<"SeeOther", <<"S","e","e",SP,"O","t","h","e","r">>>>,
    <<"NotModified", <<"N","o","t",SP,"M","o","d","i","f","i","e","d">>>>,
    <<"UseProxy", <<"U","s","e",SP,"P","r","o","x","y">>>>,
    <<"Unused", <<"U","n","u","s","e","d">>>>,
    <<"TemporaryRedirect", <<"T","e","m","p","o","r","a","r","y",SP,"R","e","d","i","r","e","c","t">>>>,
    <<"PermanentRedirect", <<"P","e","r","m","a","n","e","n","t",SP,"R","e","d","i","r","e","c","t">>>>,
    <<"BadRequest", <<"B","a","d",SP,"R","e","q","u","e","s","t">>>>,
    <<"Unauthorized", <<"U","n","a","u","t","h","o","r","i","z","e","d">>>>,
    <<"PaymentRequired", <<"P","a","y","m","e","n","t",SP,"R","e","q","u","i","r","e","d">>>>,
    <<"Forbidden", <<"F","o","r","b","i","d","d","e","n">>>>,
    <<"NotFound", <<"N","o","t",SP,"F","o","u","n","d">>>>,
    <<"MethodNotAllowed", <<"M","e","t","h","o","d",SP,"N","o","t",SP,"A","l","l","o","w","e","d">>>>,
    <<"NotAcceptable", <<"N","o","t",SP,"A","c","c","e","p","t","a","b","l","e">>>>,
    <<"ProxyAuthenticationRequired", <<"P","r","o","x","y",SP,"A","u","t","h","e","n","t","i","c","a","t","i","o","n",SP,"R","e","q","u","i","r","e","d">>>>,
    <<"RequestTimeout", <<"R","e","q","u","e","s","t",SP,"T","i","m","e","o","u","t">>>>,
    <<"Conflict", <<"C","o","n","f","l","i","c","t">>>>,
    <<"Gone", <<"G","o","n","e">>>>,
    <<"LengthRequired", <<"L","e","n","g","t","h",SP,"R","e","q","u","i","r","e","d">>>>,
    <<"PreconditionFailed", <<"P","r","e","c","o","n","d","i","t","i","o","n",SP,"F","a","i","l","e","d">>>>,
    <<"ContentTooLarge", <<"C","o","n","t","e","n","t",SP,"T","o","o",SP,"L","a","r","g","e">>>>,
    <<"UriTooLong", <<"U","R","I",SP,"T","o","o",SP,"L","o","n","g">>>>,
    <<"UnsupportedMediaType", <<"U","n","s","u","p","p","o","r","t","e","d",SP,"M","e","d","i","a",SP,"T","y","p","e">>>>,
    <<"RangeNotSatisfiable", <<"R","a","n","g","e",SP,"N","o","t",SP,"S","a","t","i","s","f","i","a","b","l","e">>>>,
    <<"ExpectationFailed", <<"E","x","p","e","c","t","a","t","i","o","n",SP,"F","a","i","l","e","d">>>>,
    <<"ImATeapot", <<"I","'","m",SP,"a",SP,"t","e","a","p","o","t">>>>,
    <<"MisdirectedRequest", <<"M","i","s","d","i","r","e","c","t","e","d",SP,"R","e","q","u","e","s","t">>>>,
    <<"UnprocessableContent", <<"U","n","p","r","o","c","e","s","s","a","b","l","e",SP,"C","o","n","t","e","n","t">>>>,
    <<"Locked", <<"L","o","c","k","e","d">>>>,
    <<"FailedDependency", <<"F","a","i","l","e","d",SP,"D","e","p","e","n","d","e","n","c","y">>>>,
    <<"TooEarly", <<"T","o","o",SP,"E","a","r","l","y">>>>,
    <<"UpgradeRequired", <<"U","p","g","r","a","d","e",SP,"R","e","q","u","i","r","e","d">>>>,
    <<"PreconditionRequired", <<"P","r","e","c","o","n","d","i","t","i","o","n",SP,"R","e","q","u","i","r","e","d">>>>,
    <<"TooManyRequests", <<"T","o","o",SP,"M","a","n","y",SP,"R","e","q","u","e","s","t","s">>>>,
    <<"RequestHeaderFieldsTooLarge", <<"R","e","q","u","e","s","t",SP,"H","e","a","d","e","r",SP,"F","i","e","l","d","s",SP,"T","o","o",SP,"L","a","r","g","e">>>>,
    <<"UnavailableForLegalReasons", <<"U","n","a","v","a","i","l","a","b","l","e",SP,"F","o","r",SP,"L","e","g","a","l",SP,"R","e","a","s","o","n","s">>>>,
    <<"InternalServerError", <<"I","n","t","e","r","n","a","l",SP,"S","e","r","v","e","r",SP,"E","r","r","o","r">>>>,
    <<"NotImplemented", <<"N","o","t",SP,"I","m","p","l","e","m","e","n","t","e","d">>>>,
    <<"BadGateway", <<"B","a","d",SP,"G","a","t","e","w","a","y">>>>,
    <<"ServiceUnavailable", <<"S","e","r","v","i","c","e",SP,"U","n","a","v","a","i","l","a","b","l","e">>>>,
    <<"GatewayTimeout", <<"G","a","t","e","w","a","y",SP,"T","i","m","e","o","u","t">>>>,
    <<"HttpVersionNotSupported", <<"H","T","T","P",SP,"V","e","r","s","i","o","n",SP,"N","o","t",SP,"S","u","p","p","o","r","t","e","d">>>>,
    <<"VariantAlsoNegotiates", <<"V","a","r","i","a","n","t",SP,"A","l","s","o",SP,"N","e","g","o","t","i","a","t","e","s">>>>,
    <<"InsufficientStorage", <<"I","n","s","u","f","f","i","c","i","e","n","t",SP,"S","t","o","r","a","g","e">>>>,
    <<"LoopDetected", <<"L","o","o","p",SP,"D","e","t","e","c","t","e","d">>>>,
    <<"NotExtended", <<"N","o","t",SP,"E","x","t","e","n","d","e","d">>>>,
    <<"NetworkAuthenticationRequired", <<"N","e","t","w","o","r","k",SP,"A","u","t","h","e","n","t","i","c","a","t","i","o","n",SP,"R","e","q","u","i","r","e","d">>>>
>>

StatusCodes == {AsIntArms[i][1] : i \in 1..Len(AsIntArms)}

\* StatusCode::as_int
StatusCode_as_int(c) ==
    AsIntArms[CHOOSE i \in 1..Len(AsIntArms) : AsIntArms[i][1] = c][2]

\* a try_from_int whose arm for 201 names the variant of 200
StatusCode_try_from_int_copied(int) ==
    IF int = 201 THEN Some("Ok")
    ELSE IF \E i \in 1..Len(TryFromIntArms) : TryFromIntArms[i][1] = int
    THEN Some(TryFromIntArms[CHOOSE i \in 1..Len(TryFromIntArms) :
                                 TryFromIntArms[i][1] = int][2])
    ELSE None

\* StatusCode::try_from_int
StatusCode_try_from_int(int) ==
    IF \E i \in 1..Len(TryFromIntArms) : TryFromIntArms[i][1] = int
    THEN Some(TryFromIntArms[CHOOSE i \in 1..Len(TryFromIntArms) :
                                 TryFromIntArms[i][1] = int][2])
    ELSE None

\* StatusCode::description
StatusCode_description(c) ==
    DescriptionArms[CHOOSE i \in 1..Len(DescriptionArms) :
                        DescriptionArms[i][1] = c][2]

\* StatusCode::code_and_description and Display for StatusCode
StatusCode_code_and_description(c) ==
    IntToString(StatusCode_as_int(c)) \o <<SP>> \o StatusCode_description(c)

\* a status line parse that takes any reason phrase
StatusCode_try_from_first_res_line_any_reason(s) ==
    LET parts == SplitWhitespace(s)
        bad == Failure(PacketErr("InvalidStatusLine"), "Ok")
    IN IF Len(parts) # 3 THEN bad
       ELSE LET status_code == ParseUsize(parts[2])
            IN IF ~status_code.ok THEN bad
               ELSE LET code_enum == StatusCode_try_from_int(status_code.val)
                    IN IF code_enum = None THEN bad
                       ELSE Success(code_enum[1])

\* StatusCode::try_from_first_res_line
StatusCode_try_from_first_res_line(s) ==
    LET parts == SplitWhitespace(s)
        bad == Failure(PacketErr("InvalidStatusLine"), "Ok")
    IN IF Len(parts) # 3 THEN bad
       ELSE LET status_code == ParseUsize(parts[2])
            IN IF ~status_code.ok THEN bad
               ELSE LET code_enum == StatusCode_try_from_int(status_code.val)
                    IN IF code_enum = None THEN bad
                       ELSE IF StatusCode_description(code_enum[1]) # parts[3]
                       THEN bad
                       ELSE Success(code_enum[1])

---------------------------------------------------------------------------
(* RequestPacket and RequestPacketBuilder *)

RequestPacket(m, u, v, hs, b) ==
    [method |-> m, url |-> u, version |-> v, headers |-> hs, body |-> b]

\* RequestPacketBuilder::new(): every field None
RequestPacketBuilder_new ==
    [method |-> None, url |-> None, version |-> None, headers |-> None,
     body |-> None]

\* the placeholder packet of a failed try_build
NoRequestPacket == RequestPacket("Get", <<>>, "V0_9", <<>>, None)

RECURSIVE RenderHeaders(_)
\* for header in &self.headers { res.push_str("{}: {}\r\n") }
RenderHeaders(hs) ==
    IF hs = <<>> THEN <<>>
    ELSE Head(hs).key \o <<COLON, SP>> \o Head(hs).value \o CRLF
         \o RenderHeaders(Tail(hs))

\* RequestPacket::to_string
RequestPacket_to_string(self) ==
    LET start == Method_to_string(self.method) \o <<SP>> \o self.url
                 \o <<SP>> \o Version_to_string(self.version) \o CRLF
        res1 == start \o RenderHeaders(self.headers)
        res2 == res1 \o CRLF
    IN IF self.body # None THEN res2 \o self.body[1] ELSE res2

\* a try_build that looks for the url before the method
RequestPacketBuilder_try_build_url_first(self) ==
    IF self.url = None
    THEN Failure(PacketErr("MissingURL"), NoRequestPacket)
    ELSE IF self.method = None
    THEN Failure(PacketErr("MissingMethod"), NoRequestPacket)
    ELSE IF self.version = None
    THEN Failure(PacketErr("MissingVersion"), NoRequestPacket)
    ELSE Success(RequestPacket(self.method[1], self.url[1], self.version[1],
                               IF self.headers = None THEN <<>>
                               ELSE self.headers[1],
                               self.body))

\* RequestPacketBuilder::try_build
RequestPacketBuilder_try_build(self) ==
    IF self.method = None
    THEN Failure(PacketErr("MissingMethod"), NoRequestPacket)
    ELSE IF self.url = None
    THEN Failure(PacketErr("MissingURL"), NoRequestPacket)
    ELSE IF self.version = None
    THEN Failure(PacketErr("MissingVersion"), NoRequestPacket)
    ELSE Success(RequestPacket(self.method[1], self.url[1], self.version[1],
                               IF self.headers = None THEN <<>>
                               ELSE self.headers[1],
                               self.body))

RECURSIVE ParseHeaders_merging(_, _)
\* a header loop that keeps only the last of neighbouring headers with the
\* same key
ParseHeaders_merging(lines, index) ==
    IF lines[index] = <<>> THEN Success(<<>>)
    ELSE LET header == Header_try_from(lines[index])
         IN IF ~header.ok THEN Failure(header.err, <<>>)
            ELSE LET rest == ParseHeaders_merging(lines, index + 1)
                 IN IF ~rest.ok THEN rest
                    ELSE IF rest.val # <<>> /\ rest.val[1].key = header.val.key
                    THEN rest
                    ELSE Success(<<header.val>> \o rest.val)

RECURSIVE ParseHeaders_skipping(_, _)
\* a header loop that leaves out the lines that are no headers
ParseHeaders_skipping(lines, index) ==
    IF lines[index] = <<>> THEN Success(<<>>)
    ELSE LET header == Header_try_from(lines[index])
             rest == ParseHeaders_skipping(lines, index + 1)
         IN IF ~header.ok THEN rest
            ELSE Success(<<header.val>> \o rest.val)

RECURSIVE ParseHeaders(_, _)
\* the header loop of both try_from_str: from line index on, up to the
\* first "" (which the caller has found to exist); `?` stops at a failure
ParseHeaders(lines, index) ==
    IF lines[index] = <<>> THEN Success(<<>>)
    ELSE LET header == Header_try_from(lines[index])
         IN IF ~header.ok THEN Failure(header.err, <<>>)
            ELSE LET rest == ParseHeaders(lines, index + 1)
                 IN IF ~rest.ok THEN rest
                    ELSE Success(<<header.val>> \o rest.val)

\* lines = lines.drain(0..body_start_index).collect(): Vec::drain hands out
\* the elements it removes, so the new `lines` is the removed front part,
\* the elements with (0-based) index below body_start_index
drain_collect(lines, body_start_index) ==
    SubSeq(lines, 1, body_start_index)

\* body_str = lines.join("\r\n"); "" => None, s => Some(Body(s))
body_of(lines) ==
    LET body_str == JoinCRLF(lines)
    IN IF body_str = <<>> THEN None ELSE Some(body_str)

RECURSIVE ParseHeadersToEnd(_, _)
\* a header loop that also stops where the lines end
ParseHeadersToEnd(lines, index) ==
    IF index > Len(lines) \/ lines[index] = <<>> THEN Success(<<>>)
    ELSE LET header == Header_try_from(lines[index])
         IN IF ~header.ok THEN Failure(header.err, <<>>)
            ELSE LET rest == ParseHeadersToEnd(lines, index + 1)
                 IN IF ~rest.ok THEN rest
                    ELSE Success(<<header.val>> \o rest.val)

\* a request parse that parses the header lines before it looks for the
\* blank line
RequestPacketBuilder_try_from_str_headers_first(s) ==
    LET lines == SplitCRLF(s)
        fail(e) == Failure(e, RequestPacketBuilder_new)
        first_line == lines[1]
        version == Version_try_from_first_req_line(first_line)
        fl_parts == SplitWhitespace(first_line)
        headers == ParseHeadersToEnd(lines, 2)
    IN IF ~version.ok THEN fail(version.err)
       ELSE IF Method_try_from(fl_parts[1]) = None
       THEN fail(PacketErr("InvalidMethod"))
       ELSE IF ~headers.ok THEN fail(headers.err)
       ELSE IF ~Contains(lines, <<>>)
       THEN fail(PacketErr("NoHeaderEndFound"))
       ELSE Success([method |-> Method_try_from(fl_parts[1]),
                     url |-> Some(fl_parts[2]),
                     version |-> Some(version.val),
                     headers |-> Some(headers.val),
                     body |-> body_of(drain_collect(lines,
                                          Position(lines, <<>>) + 1))])

\* RequestPacketBuilder::try_from_str (the trim/retain chain of lines
\* 198-202 works on a temporary Vec and leaves `lines` as split)
RequestPacketBuilder_try_from_str(s) ==
    LET lines == SplitCRLF(s)
        fail(e) == Failure(e, RequestPacketBuilder_new)
    IN IF Len(lines) = 0 THEN fail(PacketErr("InvalidLines"))
       ELSE
       LET first_line == lines[1]
           version == Version_try_from_first_req_line(first_line)
       IN IF ~version.ok THEN fail(version.err)
          ELSE
          LET fl_parts == SplitWhitespace(first_line)
          IN IF Len(fl_parts) < 2 \/ Len(fl_parts) > 3
             THEN fail(PacketErr("FirstLineWordCountMismatch"))
             ELSE
             LET method_opt == Method_try_from(fl_parts[1])
                 url == fl_parts[2]
             IN IF method_opt = None THEN fail(PacketErr("InvalidMethod"))
                ELSE IF ~Contains(lines, <<>>)
                THEN fail(PacketErr("NoHeaderEndFound"))
                ELSE
                LET headers == ParseHeaders(lines, 2)
                    index_header_end == Position(lines, <<>>)
                    body_start_index == index_header_end + 1
                    body == body_of(drain_collect(lines, body_start_index))
                IN IF ~headers.ok THEN fail(headers.err)
                   ELSE Success([method |-> Some(method_opt[1]),
                                 url |-> Some(url),
                                 version |-> Some(version.val),
                                 headers |-> Some(headers.val),
                                 body |-> body])

---------------------------------------------------------------------------
(* ResponsePacketBuilder *)

\* ResponsePacketBuilder::new(): every field None
ResponsePacketBuilder_new ==
    [version |-> None, status |-> None, headers |-> None, body |-> None]

\* a response parse that looks at the status line before it counts the
\* segments
ResponsePacketBuilder_try_from_str_status_first(s) ==
    LET lines == SplitCRLF(s)
        fail(e) == Failure(e, ResponsePacketBuilder_new)
        first_line == lines[1]
        version == Version_try_from_first_res_line(first_line)
        code == StatusCode_try_from_first_res_line(first_line)
    IN IF Len(Trim(s)) = 0 THEN fail(PacketErr("InvalidLines"))
       ELSE IF ~version.ok THEN fail(version.err)
       ELSE IF ~code.ok THEN fail(code.err)
       ELSE IF Len(lines) = 1 \/ Len(lines) = 2
       THEN fail(PacketErr("InvalidLines"))
       ELSE IF ~Contains(lines, <<>>)
       THEN fail(PacketErr("NoHeaderEndFound"))
       ELSE
       LET headers == ParseHeaders(lines, 2)
           index_header_end == Position(lines, <<>>)
           body_start_index == index_header_end + 1
           body == body_of(drain_collect(lines, body_start_index))
       IN IF ~headers.ok THEN fail(headers.err)
          ELSE Success([version |-> Some(version.val),
                        status |-> Some(code.val),
                        headers |-> IF Len(headers.val) = 0 THEN None
                                    ELSE Some(headers.val),
                        body |-> body])

\* ResponsePacketBuilder::try_from_str
ResponsePacketBuilder_try_from_str(s) ==
    LET lines == SplitCRLF(s)
        fail(e) == Failure(e, ResponsePacketBuilder_new)
    IN IF Len(Trim(s)) = 0 THEN fail(PacketErr("InvalidLines"))
       ELSE IF Len(lines) = 1 \/ Len(lines) = 2
       THEN fail(PacketErr("InvalidLines"))
       ELSE
       LET first_line == lines[1]
           version == Version_try_from_first_res_line(first_line)
           code == StatusCode_try_from_first_res_line(first_line)
       IN IF ~version.ok THEN fail(version.err)
          ELSE IF ~code.ok THEN fail(code.err)
          ELSE IF ~Contains(lines, <<>>)
          THEN fail(PacketErr("NoHeaderEndFound"))
          ELSE
          LET headers == ParseHeaders(lines, 2)
              index_header_end == Position(lines, <<>>)
              body_start_index == index_header_end + 1
              body == body_of(drain_collect(lines, body_start_index))
          IN IF ~headers.ok THEN fail(headers.err)
             ELSE Success([version |-> Some(version.val),
                           status |-> Some(code.val),
                           headers |-> IF Len(headers.val) = 0 THEN None
                                       ELSE Some(headers.val),
                           body |-> body])

---------------------------------------------------------------------------
(* ResponsePacket, and the setters of the two builders *)

ResponsePacket(v, st, hs, b) ==
    [version |-> v, status |-> st, headers |-> hs, body |-> b]

\* the placeholder packet of a failed try_build
NoResponsePacket == ResponsePacket("V0_9", None, None, None)

RECURSIVE RenderHeaderLines(_)
\* for hdr in hdrs { acc.push_str(format!("{hdr}\r\n")) }
RenderHeaderLines(hdrs) ==
    IF hdrs = <<>> THEN <<>>
    ELSE Header_fmt(Head(hdrs)) \o CRLF \o RenderHeaderLines(Tail(hdrs))

\* a rendering that writes the blank line whether or not there are headers
HeaderSection_always_blank(headers) ==
    IF headers # None THEN RenderHeaderLines(headers[1]) \o CRLF ELSE CRLF

\* if let Some(hdrs) = &self.headers { each header line; acc.push_str("\r\n") }
HeaderSection(headers) ==
    IF headers # None THEN RenderHeaderLines(headers[1]) \o CRLF ELSE <<>>

\* the V1_0 arm and the V1_1 arm of try_to_string, which read alike
try_to_string_v1(self) ==
    IF self.status = None THEN Failure(PacketErr("NoStatusCode"), <<>>)
    ELSE LET acc1 == Version_to_string(self.version) \o <<SP>>
                     \o StatusCode_code_and_description(self.status[1]) \o CRLF
             acc2 == acc1 \o HeaderSection(self.headers)
         IN Success(IF self.body # None THEN acc2 \o self.body[1] ELSE acc2)

\* a V0_9 arm that renders an absent body as the empty text
try_to_string_v0_9_lenient(self) ==
    IF self.body = None THEN Success(<<>>) ELSE Success(self.body[1])

\* the V0_9 arm of try_to_string
try_to_string_v0_9(self) ==
    IF self.body = None THEN Failure(PacketErr("NoBody"), <<>>)
    ELSE Success(self.body[1])

\* ResponsePacket::try_to_string
ResponsePacket_try_to_string(self) ==
    CASE self.version = "V0_9" -> try_to_string_v0_9(self)
      [] self.version = "V1_0" -> try_to_string_v1(self)
      [] self.version = "V1_1" -> try_to_string_v1(self)

\* a try_build that asks V1_0 and V1_1 for a header sequence as well
ResponsePacketBuilder_try_build_headers_required(self) ==
    IF self.version = None
    THEN Failure(PacketErr("NoVersionFound"), NoResponsePacket)
    ELSE IF self.version[1] # "V0_9"
            /\ (self.status = None \/ self.headers = None)
    THEN Failure(PacketErr("NoStatusCode"), NoResponsePacket)
    ELSE Success(ResponsePacket(self.version[1], self.status, self.headers,
                                self.body))

\* a try_build that asks V0_9 for a body
ResponsePacketBuilder_try_build_strict(self) ==
    IF self.version = None
    THEN Failure(PacketErr("NoVersionFound"), NoResponsePacket)
    ELSE IF self.version[1] = "V0_9" /\ self.body = None
    THEN Failure(PacketErr("NoBody"), NoResponsePacket)
    ELSE IF self.version[1] # "V0_9" /\ self.status = None
    THEN Failure(PacketErr("NoStatusCode"), NoResponsePacket)
    ELSE Success(ResponsePacket(self.version[1], self.status, self.headers,
                                self.body))

\* ResponsePacketBuilder::try_build
ResponsePacketBuilder_try_build(self) ==
    IF self.version = None
    THEN Failure(PacketErr("NoVersionFound"), NoResponsePacket)
    ELSE CASE self.version[1] = "V0_9" ->
                Success(ResponsePacket(self.version[1], self.status,
                                       self.headers, self.body))
           [] self.version[1] \in {"V1_0", "V1_1"} ->
                IF self.status = None
                THEN Failure(PacketErr("NoStatusCode"), NoResponsePacket)
                ELSE Success(ResponsePacket(self.version[1],
                                            Some(self.status[1]),
                                            self.headers, self.body))

\* a setter `headers` that replaces the list
set_headers_replacing(self, headers) ==
    [self EXCEPT !.headers = Some(headers)]

\* the setters `headers` of both builders: extend the list or start it
set_headers(self, headers) ==
    [self EXCEPT !.headers = IF self.headers # None
                             THEN Some(self.headers[1] \o headers)
                             ELSE Some(headers)]

\* the setters `header` of both builders: push onto the list or start it
set_header(self, key, value) ==
    [self EXCEPT !.headers = IF self.headers # None
                             THEN Some(Append(self.headers[1],
                                              Header(key, value)))
                             ELSE Some(<<Header(key, value)>>)]

\* the setters `version` of both builders
set_version(self, version) == [self EXCEPT !.version = Some(version)]

\* the setters `body` of both builders
set_body(self, body) == [self EXCEPT !.body = Some(body)]

\* RequestPacketBuilder::url
set_url(self, url) == [self EXCEPT !.url = Some(url)]

\* RequestPacketBuilder::method
set_method(self, method) == [self EXCEPT !.method = Some(method)]

\* ResponsePacketBuilder::status
set_status(self, status) == [self EXCEPT !.status = Some(status)]

---------------------------------------------------------------------------
(* Sources *)

\* no packet engine is in use
PacketIdle ==
    /\ req_packet = None
    /\ wire = None
    /\ req_parsed = None
    /\ req_built = None
    /\ res_parsed = None
    /\ cycles = 0

\* no builder is being assembled, no response packet is in hand
BuilderIdle ==
    /\ req_builder = None
    /\ res_builder = None
    /\ res_built = None
    /\ res_packet = None
    /\ res_wire = None
    /\ setter_calls = <<>>

\* no lexical value is in hand
ObjIdle ==
    /\ line_in = None
    /\ version_res = None
    /\ code_res = None
    /\ header_res = None
    /\ code_in = None
    /\ int_in = None
    /\ int_code = None

ReaderIdle ==
    /\ pos = 0
    /\ pc = "idle"
    /\ buffer = <<>>
    /\ header_buffer = <<>>
    /\ content_length = 0
    /\ body_buffer = <<>>
    /\ total_read = 0
    /\ ret = NoReturn
    /\ call_start = 0
    /\ calls = 0
    /\ log = <<>>

\* every byte string over these bytes, up to MaxStreamLen long
ScanAlphabet == {CR, LF, "a"}
ScanStreams == UNION {[1..n -> ScanAlphabet] : n \in 0..MaxStreamLen}

InitScan ==
    /\ stream \in ScanStreams
    /\ ReaderIdle
    /\ PacketIdle
    /\ BuilderIdle
    /\ ObjIdle

NextScan ==
    \/ read_until_crlf_call
    \/ read_until_crlf_loop
    \/ read_until_double_crlf_call
    \/ read_until_double_crlf_loop

SpecScan == InitScan /\ [][NextScan]_vars

---------------------------------------------------------------------------
(* Sources that carry HTTP messages *)

\* header-block lines the generated sources are built from
LinePool == {
    <<"H", COLON, "a">>,
    <<"H", COLON, BAD>>,
    <<"C","o","n","t","e","n","t","-","L","e","n","g","t","h",COLON,SP,"2">>,
    <<"c","o","n","t","e","n","t","-","l","e","n","g","t","h",COLON,"0">>,
    <<"C","O","N","T","E","N","T","-","L","E","N","G","T","H",COLON,SP,"x">>,
    <<"C","o","n","t","e","n","t","-","L","e","n","g","t","h",COLON,SP,"-","1">>,
    <<"C","o","n","t","e","n","t","-","L","e","n","g","t","h",COLON,SP>>,
    <<"C","o","n","t","e","n","t","-","L","e","n","g","t","h",COLON,"+","1",SP>>,
    <<"x","C","o","n","t","e","n","t","-","L","e","n","g","t","h",COLON,"1">>,
    <<"a",LF,"c","o","n","t","e","n","t","-","l","e","n","g","t","h",COLON,"1">> }

\* what follows the header lines: the blank line, or nothing (cut short)
TermPool == {CRLF, <<>>}

\* what the source holds after that
TailPool == {
    <<>>,
    <<"a">>,
    <<"a", "b", "c">>,
    <<BAD, "a">>,
    <<CR, LF, CR, LF, "a", "b">> }

RECURSIVE JoinLines(_)
\* every line followed by CRLF
JoinLines(ls) ==
    IF ls = <<>> THEN <<>> ELSE Head(ls) \o CRLF \o JoinLines(Tail(ls))

FullStreams ==
    { JoinLines(ls) \o t \o tl :
        ls \in UNION {[1..n -> LinePool] : n \in 0..MaxLines},
        t \in TermPool, tl \in TailPool }

InitFull ==
    /\ stream \in FullStreams
    /\ ReaderIdle
    /\ PacketIdle
    /\ BuilderIdle
    /\ ObjIdle

NextFull ==
    \/ read_full_packet_call
    \/ read_headers_loop
    \/ read_body_loop

SpecFull == InitFull /\ [][NextFull]_vars

---------------------------------------------------------------------------
(* The packet engines in use: inputs and calls *)

\* headers a RequestPacket in hand may carry
HeaderPool == {
    Header(<<"K","e","y">>, <<"V","a","l","u","e">>),
    Header(<<"K">>, <<"a",COLON,"b">>),
    Header(<<"K">>, <<>>) }

UrlPool == { <<"/">>, <<"/","a">> }

BodyPool == { None, Some(<<"h","i">>), Some(<<"a",CR,LF,"b">>) }

\* every RequestPacket over the pools, up to MaxHeaders headers
RequestPackets ==
    { RequestPacket(m, u, v, hs, b) :
        m \in Methods, u \in UrlPool, v \in Versions,
        hs \in UNION {[1..n -> HeaderPool] : n \in 0..MaxHeaders},
        b \in BodyPool }

\* first lines of the wire texts in hand: request lines and status lines,
\* well-formed and not
StartLinePool == {
    <<"G","E","T",SP,"/",SP,"H","T","T","P","/","1",".","0">>,
    <<"P","O","S","T",SP,"/","a",SP,"H","T","T","P","/","1",".","1">>,
    <<"G","E","T",SP,"/","a","p","i">>,
    <<"G","E","T",SP,"/","a","p","i",SP,"H","T","T","P","/","2",".","0">>,
    <<"G","E","T",SP,"/","a","p","i",SP,"H","T","T","P","/","1",".","0",SP,"a">>,
    <<"F","O","O",SP,"/",SP,"H","T","T","P","/","1",".","0">>,
    <<"G","E","T">>,
    <<"F","O","O">>,
    <<"F","O","O",SP,"/",SP,"H","T","T","P","/","2",".","0">>,
    <<SP,"G","E","T",SP,SP,"/",SP>>,
    <<>>,
    <<"H","T","T","P","/","1",".","0",SP,"2","0","0",SP,"O","K">>,
    <<"H","T","T","P","/","1",".","1",SP,"4","1","0",SP,"G","o","n","e">>,
    <<"H","T","T","P","/","1",".","1",SP,"4","0","4",SP,"N","o","t",SP,"F","o","u","n","d">>,
    <<"H","T","T","P","/","1",".","0",SP,"2","0","0",SP,"O","k","a","y">>,
    <<"H","T","T","P","/","2",".","0",SP,"2","0","0",SP,"O","K">>,
    <<"H","T","T","P","/","1",".","0",SP,"9","9","9",SP,"O","K">>,
    <<"H","T","T","P","/","1",".","0",SP,"a","b","c",SP,"O","K">> }

\* lines that may follow the first line
WireLinePool == {
    <<"K","e","y",COLON,SP,"V","a","l","u","e">>,
    <<"K",COLON,"a",COLON,"b">>,
    <<"K",COLON>>,
    <<"n","o","c","o","l","o","n">>,
    <<SP>> }

\* the CRLF-separated segments that end a wire text: nothing at all, one
\* closing CRLF, the blank line with no body, with a body, with a body of
\* two lines, with a body that starts with a CRLF, and a body with no
\* blank line before it
RestPool == {
    <<>>,
    << <<>> >>,
    << <<>>, <<>> >>,
    << <<>>, <<"h","i">> >>,
    << <<>>, <<"a">>, <<"b">> >>,
    << <<>>, <<>>, <<"x">> >>,
    << <<"h","i">> >> }

WireTexts ==
    { JoinCRLF(<<first>> \o ls \o rest) :
        first \in StartLinePool,
        ls \in UNION {[1..n -> WireLinePool] : n \in 0..MaxHeaders},
        rest \in RestPool }

\* no reader call is in progress and there is no source
ReaderUnused ==
    /\ stream = <<>>
    /\ ReaderIdle

InitPacket ==
    /\ ReaderUnused
    /\ BuilderIdle
    /\ ObjIdle
    /\ \/ req_packet \in {Some(p) : p \in RequestPackets} /\ wire = None
       \/ req_packet = None /\ wire \in {Some(t) : t \in WireTexts}
    /\ req_parsed = None
    /\ req_built = None
    /\ res_parsed = None
    /\ cycles = 0

\* wire = req_packet.to_string()
request_to_string ==
    /\ req_packet # None
    /\ wire = None
    /\ wire' = Some(RequestPacket_to_string(req_packet[1]))
    /\ UNCHANGED <<req_packet, req_parsed, req_built, res_parsed, cycles>>
    /\ UNCHANGED <<readerVars, builderVars, objVars>>

\* req_parsed = RequestPacketBuilder::try_from_str(&wire)
request_try_from_str ==
    /\ wire # None
    /\ req_parsed = None
    /\ req_parsed' = Some(RequestPacketBuilder_try_from_str(wire[1]))
    /\ UNCHANGED <<req_packet, wire, req_built, res_parsed, cycles>>
    /\ UNCHANGED <<readerVars, builderVars, objVars>>

\* req_built = builder.try_build(), for the builder of a successful parse
request_try_build ==
    /\ req_parsed # None
    /\ req_parsed[1].ok
    /\ req_built = None
    /\ req_built' = Some(RequestPacketBuilder_try_build(req_parsed[1].val))
    /\ UNCHANGED <<req_packet, wire, req_parsed, res_parsed, cycles>>
    /\ UNCHANGED <<readerVars, builderVars, objVars>>

\* res_parsed = ResponsePacketBuilder::try_from_str(&wire)
response_try_from_str ==
    /\ wire # None
    /\ res_parsed = None
    /\ res_parsed' = Some(ResponsePacketBuilder_try_from_str(wire[1]))
    /\ UNCHANGED <<req_packet, wire, req_parsed, req_built, cycles>>
    /\ UNCHANGED <<readerVars, builderVars, objVars>>

NextPacket ==
    \/ request_to_string
    \/ request_try_from_str
    \/ request_try_build
    \/ response_try_from_str

SpecPacket == InitPacket /\ [][NextPacket]_vars

---------------------------------------------------------------------------
(* The lexical value types in use: inputs and calls *)

\* tokens the generated lines are made of
TokenPool == {
    <<"G","E","T">>,
    <<"/">>,
    <<"H","T","T","P","/","1",".","0">>,
    <<"H","T","T","P","/","1",".","1">>,
    <<"H","T","T","P","/","2",".","0">>,
    <<"2","0","0">>,
    <<"O","K">>,
    <<"x",COLON,"y">> }

\* what stands between two tokens of a generated line
SeparatorPool == { <<SP>>, <<SP, TAB>> }

RECURSIVE JoinWith(_, _)
\* the tokens with sep between neighbours
JoinWith(tokens, sep) ==
    IF tokens = <<>> THEN <<>>
    ELSE IF Len(tokens) = 1 THEN tokens[1]
    ELSE tokens[1] \o sep \o JoinWith(Tail(tokens), sep)

\* every line of up to MaxTokens tokens
TokenLines ==
    { JoinWith(ts, sep) :
        ts \in UNION {[1..n -> TokenPool] : n \in 0..MaxTokens},
        sep \in SeparatorPool }

\* the status line try_to_string writes for each status code
StatusLines ==
    { Version_to_string(v) \o <<SP>> \o StatusCode_code_and_description(c) :
        v \in {"V1_0", "V1_1"}, c \in StatusCodes }

\* lines written by hand: numbers with a sign or a leading zero, a reason
\* in the wrong letter case, padding, colons in every place
OtherLines == {
    <<"H","T","T","P","/","1",".","0",SP,"+","2","0","0",SP,"O","K">>,
    <<"H","T","T","P","/","1",".","0",SP,"0","2","0","0",SP,"O","K">>,
    <<"H","T","T","P","/","1",".","0",SP,"-","2","0","0",SP,"O","K">>,
    <<"H","T","T","P","/","1",".","0",SP,"2","0","0",SP,"o","k">>,
    <<"H","T","T","P","/","1",".","0",SP,"2","0","0",SP,"O","K","a","y">>,
    <<"H","T","T","P","/","1",".","0",SP,"2","0","1",SP,"O","K">>,
    <<"H","T","T","P","/","1",".","0",SP,"4","0","4",SP,"N","o","t">>,
    <<"H","T","T","P","/","1",".","0",SP,"4","0","4",SP,"F","o","u","n","d">>,
    <<"x",SP,"4","1","0",SP,"G","o","n","e">>,
    <<SP,"H","T","T","P","/","1",".","1",SP,SP,"4","1","0",TAB,"G","o","n","e",SP>>,
    <<"G","E","T",SP,"/",SP,"h","t","t","p","/","1",".","0">>,
    <<SP,"a",SP,"b",SP>>,
    <<COLON>>,
    <<"a",COLON>>,
    <<COLON,"b">>,
    <<"a",COLON,SP,"b",COLON,"c">>,
    <<"a",SP,COLON,SP,SP,"b",SP>>,
    <<"K","e","y",COLON,SP,"V","a","l","u","e">> }

LinePoolIn ==
    TokenLines \cup StatusLines \cup OtherLines \cup StartLinePool
    \cup WireLinePool

\* one value is in hand: a line, a status code, an integer or a wire text
InitLexical ==
    /\ ReaderUnused
    /\ BuilderIdle
    /\ req_packet = None
    /\ req_parsed = None
    /\ req_built = None
    /\ res_parsed = None
    /\ cycles = 0
    /\ version_res = None
    /\ code_res = None
    /\ header_res = None
    /\ int_code = None
    /\ \/ /\ line_in \in {Some(l) : l \in LinePoolIn}
          /\ code_in = None /\ int_in = None /\ wire = None
       \/ /\ code_in \in {Some(c) : c \in StatusCodes}
          /\ line_in = None /\ int_in = None /\ wire = None
       \/ /\ int_in \in {Some(n) : n \in 0..MaxInt}
          /\ line_in = None /\ code_in = None /\ wire = None
       \/ /\ wire \in {Some(t) : t \in WireTexts}
          /\ line_in = None /\ code_in = None /\ int_in = None

\* the line in hand has not been handed to any function yet
LineUnused ==
    /\ line_in # None
    /\ version_res = None
    /\ code_res = None
    /\ header_res = None

\* version_res = Version::try_from_first_req_line(&line_in)
version_try_from_first_req_line ==
    /\ LineUnused
    /\ version_res' = Some(Version_try_from_first_req_line(line_in[1]))
    /\ UNCHANGED <<line_in, code_res, header_res, code_in, int_in, int_code>>
    /\ UNCHANGED <<readerVars, packetVars, builderVars>>

\* code_res = StatusCode::try_from_first_res_line(&line_in)
status_try_from_first_res_line ==
    /\ LineUnused
    /\ code_res' = Some(StatusCode_try_from_first_res_line(line_in[1]))
    /\ UNCHANGED <<line_in, version_res, header_res, code_in, int_in,
                   int_code>>
    /\ UNCHANGED <<readerVars, packetVars, builderVars>>

\* header_res = Header::try_from(line_in)
header_try_from ==
    /\ LineUnused
    /\ header_res' = Some(Header_try_from(line_in[1]))
    /\ UNCHANGED <<line_in, version_res, code_res, code_in, int_in, int_code>>
    /\ UNCHANGED <<readerVars, packetVars, builderVars>>

\* int_in = code_in.as_int()
status_as_int ==
    /\ code_in # None
    /\ int_in = None
    /\ int_in' = Some(StatusCode_as_int(code_in[1]))
    /\ UNCHANGED <<line_in, version_res, code_res, header_res, code_in,
                   int_code>>
    /\ UNCHANGED <<readerVars, packetVars, builderVars>>

\* int_code = StatusCode::try_from_int(int_in)
status_try_from_int ==
    /\ int_in # None
    /\ int_code = None
    /\ int_code' = Some(StatusCode_try_from_int(int_in[1]))
    /\ UNCHANGED <<line_in, version_res, code_res, header_res, code_in,
                   int_in>>
    /\ UNCHANGED <<readerVars, packetVars, builderVars>>

NextLexical ==
    \/ version_try_from_first_req_line
    \/ status_try_from_first_res_line
    \/ header_try_from
    \/ status_as_int
    \/ status_try_from_int
    \/ request_try_from_str

SpecLexical == InitLexical /\ [][NextLexical]_vars

---------------------------------------------------------------------------
(* Builders assembled field by field, and response packets: inputs, calls *)

\* header lists handed to the setter `headers`, and carried by packets
HeaderLists == UNION {[1..n -> HeaderPool] : n \in 0..MaxHeaders}

\* texts handed to the setter `body`
BodyTexts == { <<"h","i">>, <<"a",CR,LF,"b">> }

\* status codes handed to the setter `status`
StatusPool == { "Ok", "NotFound", "Gone" }

\* bodies of the response packets in hand: none, the empty text, a text
ResponseBodyPool == {None, Some(<<>>)} \cup {Some(b) : b \in BodyTexts}

\* every ResponsePacket over the pools: any version, any status code or
\* none, a header list or none
ResponsePackets ==
    { ResponsePacket(v, st, hs, b) :
        v \in Versions,
        st \in {None} \cup {Some(c) : c \in StatusCodes},
        hs \in {None} \cup {Some(l) : l \in HeaderLists},
        b \in ResponseBodyPool }

\* nothing is in hand, or a ResponsePacket is
InitBuilder ==
    /\ ReaderUnused
    /\ PacketIdle
    /\ ObjIdle
    /\ req_builder = None
    /\ res_builder = None
    /\ res_built = None
    /\ res_wire = None
    /\ setter_calls = <<>>
    /\ res_packet \in {None} \cup {Some(p) : p \in ResponsePackets}

NothingInHand ==
    /\ req_builder = None
    /\ res_builder = None
    /\ res_packet = None
    /\ req_packet = None
    /\ wire = None

\* the request builder is still being assembled
RequestAssembling == req_builder # None /\ req_built = None

\* the response builder is still being assembled
ResponseAssembling == res_builder # None /\ res_built = None

\* the list in the builder stays within MaxHeaders after n more headers
RoomFor(builder, n) ==
    (IF builder.headers = None THEN 0 ELSE Len(builder.headers[1])) + n
        <= MaxHeaders

\* req_builder = RequestPacketBuilder::new()
request_builder_new ==
    /\ NothingInHand
    /\ req_builder' = Some(RequestPacketBuilder_new)
    /\ UNCHANGED <<res_builder, res_built, res_packet, res_wire, setter_calls>>
    /\ UNCHANGED <<readerVars, packetVars, objVars>>

\* req_builder = req_builder.url(u) / .method(m) / .version(v) / .body(b)
\* / .headers(hs) / .header((k, v))
request_builder_set ==
    /\ RequestAssembling
    /\ \/ \E u \in UrlPool : req_builder' = Some(set_url(req_builder[1], u))
       \/ \E m \in Methods :
            req_builder' = Some(set_method(req_builder[1], m))
       \/ \E v \in Versions :
            req_builder' = Some(set_version(req_builder[1], v))
       \/ \E b \in BodyTexts :
            req_builder' = Some(set_body(req_builder[1], b))
       \/ \E hs \in HeaderLists :
            /\ RoomFor(req_builder[1], Len(hs))
            /\ req_builder' = Some(set_headers(req_builder[1], hs))
       \/ \E h \in HeaderPool :
            /\ RoomFor(req_builder[1], 1)
            /\ req_builder' = Some(set_header(req_builder[1], h.key, h.value))
    /\ UNCHANGED <<res_builder, res_built, res_packet, res_wire, setter_calls>>
    /\ UNCHANGED <<readerVars, packetVars, objVars>>

\* req_built = req_builder.try_build()
request_builder_try_build ==
    /\ RequestAssembling
    /\ req_built' = Some(RequestPacketBuilder_try_build(req_builder[1]))
    /\ UNCHANGED <<req_packet, wire, req_parsed, res_parsed, cycles>>
    /\ UNCHANGED <<readerVars, builderVars, objVars>>

\* res_builder = ResponsePacketBuilder::new()
response_builder_new ==
    /\ NothingInHand
    /\ res_builder' = Some(ResponsePacketBuilder_new)
    /\ UNCHANGED <<req_builder, res_built, res_packet, res_wire, setter_calls>>
    /\ UNCHANGED <<readerVars, packetVars, objVars>>

\* res_builder = res_builder.status(c) / .version(v) / .body(b)
\* / .headers(hs) / .header((k, v))
response_builder_set ==
    /\ ResponseAssembling
    /\ \/ \E c \in StatusPool :
            res_builder' = Some(set_status(res_builder[1], c))
       \/ \E v \in Versions :
            res_builder' = Some(set_version(res_builder[1], v))
       \/ \E b \in BodyTexts :
            res_builder' = Some(set_body(res_builder[1], b))
       \/ \E hs \in HeaderLists :
            /\ RoomFor(res_builder[1], Len(hs))
            /\ res_builder' = Some(set_headers(res_builder[1], hs))
       \/ \E h \in HeaderPool :
            /\ RoomFor(res_builder[1], 1)
            /\ res_builder' = Some(set_header(res_builder[1], h.key, h.value))
    /\ UNCHANGED <<req_builder, res_built, res_packet, res_wire, setter_calls>>
    /\ UNCHANGED <<readerVars, packetVars, objVars>>

\* res_built = res_builder.try_build()
response_builder_try_build ==
    /\ ResponseAssembling
    /\ res_built' = Some(ResponsePacketBuilder_try_build(res_builder[1]))
    /\ UNCHANGED <<req_builder, res_builder, res_packet, res_wire,
                   setter_calls>>
    /\ UNCHANGED <<readerVars, packetVars, objVars>>

\* res_wire = res_packet.try_to_string()
response_try_to_string ==
    /\ res_packet # None
    /\ res_wire = None
    /\ res_wire' = Some(ResponsePacket_try_to_string(res_packet[1]))
    /\ UNCHANGED <<req_builder, res_builder, res_built, res_packet,
                   setter_calls>>
    /\ UNCHANGED <<readerVars, packetVars, objVars>>

NextBuilder ==
    \/ request_builder_new
    \/ request_builder_set
    \/ request_builder_try_build
    \/ response_builder_new
    \/ response_builder_set
    \/ response_builder_try_build
    \/ response_try_to_string

SpecBuilder == InitBuilder /\ [][NextBuilder]_vars

---------------------------------------------------------------------------
(* Both engines together *)

InitEngines == InitPacket \/ InitBuilder

NextEngines == NextPacket \/ NextBuilder

\* the parsers, the builders and the renderers of both packet kinds
SpecEngines == InitEngines /\ [][NextEngines]_vars

---------------------------------------------------------------------------
(* Round trips: a parsed packet rendered again, a rendered packet parsed *)

\* bodies that hold a blank line: a body that starts with a CRLF, and a
\* body that reads like a header line, a blank line and a text
BlankLineBodies == {
    <<CR,LF,"h","i">>,
    <<"K",COLON,"v",CR,LF,CR,LF,"h","i">> }

\* the response packets in hand: those of ResponsePackets, and header-less
\* ones whose body holds a blank line
RoundTripPackets ==
    ResponsePackets
    \cup { ResponsePacket(v, Some(c), None, Some(b)) :
                v \in Versions, c \in StatusPool, b \in BlankLineBodies }

\* a wire text is in hand, or a ResponsePacket is
InitRoundTrip ==
    /\ ReaderUnused
    /\ ObjIdle
    /\ req_packet = None
    /\ req_parsed = None
    /\ req_built = None
    /\ res_parsed = None
    /\ cycles = 0
    /\ req_builder = None
    /\ res_builder = None
    /\ res_built = None
    /\ res_wire = None
    /\ setter_calls = <<>>
    /\ \/ wire \in {Some(t) : t \in WireTexts} /\ res_packet = None
       \/ wire = None /\ res_packet \in {Some(p) : p \in RoundTripPackets}

\* wire = packet.to_string() for the packet of a successful try_build; the
\* new text is then the one in hand
request_render_built ==
    /\ req_built # None
    /\ req_built[1].ok
    /\ cycles < MaxCycles
    /\ req_packet' = Some(req_built[1].val)
    /\ wire' = Some(RequestPacket_to_string(req_built[1].val))
    /\ req_parsed' = None
    /\ req_built' = None
    /\ res_parsed' = None
    /\ cycles' = cycles + 1
    /\ UNCHANGED <<readerVars, builderVars, objVars>>

\* res_parsed = ResponsePacketBuilder::try_from_str(&text) for the text of
\* a successful res_packet.try_to_string()
response_try_from_rendered ==
    /\ res_wire # None
    /\ res_wire[1].ok
    /\ wire = None
    /\ wire' = Some(res_wire[1].val)
    /\ res_parsed' = Some(ResponsePacketBuilder_try_from_str(res_wire[1].val))
    /\ UNCHANGED <<req_packet, req_parsed, req_built, cycles>>
    /\ UNCHANGED <<readerVars, builderVars, objVars>>

\* res_built = builder.try_build(), for the builder of a successful parse
response_parsed_try_build ==
    /\ res_parsed # None
    /\ res_parsed[1].ok
    /\ res_builder = None
    /\ res_builder' = Some(res_parsed[1].val)
    /\ res_built' = Some(ResponsePacketBuilder_try_build(res_parsed[1].val))
    /\ UNCHANGED <<req_builder, res_packet, res_wire, setter_calls>>
    /\ UNCHANGED <<readerVars, packetVars, objVars>>

\* res_wire = packet.try_to_string() for the packet of a successful
\* try_build
response_built_try_to_string ==
    /\ res_built # None
    /\ res_built[1].ok
    /\ res_packet = None
    /\ res_packet' = Some(res_built[1].val)
    /\ res_wire' = Some(ResponsePacket_try_to_string(res_built[1].val))
    /\ UNCHANGED <<req_builder, res_builder, res_built, setter_calls>>
    /\ UNCHANGED <<readerVars, packetVars, objVars>>

NextRoundTrip ==
    \/ request_try_from_str
    \/ request_try_build
    \/ request_render_built
    \/ response_try_from_str
    \/ response_try_to_string
    \/ response_try_from_rendered
    \/ response_parsed_try_build
    \/ response_built_try_to_string

\* parse, build and render chained in both directions
SpecRoundTrip == InitRoundTrip /\ [][NextRoundTrip]_vars

---------------------------------------------------------------------------
(* Builders under recorded sequences of setter calls *)

\* one setter call: the setter's name and its argument
Call(setter, arg) == [setter |-> setter, arg |-> arg]

\* header lists handed to the recorded `headers` calls
SetterHeaderLists == {
    <<>>,
    << Header(<<"K","e","y">>, <<"V","a","l","u","e">>) >>,
    << Header(<<"K">>, <<>>), Header(<<"K","e","y">>, <<"V","a","l","u","e">>) >> }

\* headers handed to the recorded `header` calls
SetterHeaders == {
    Header(<<"K","e","y">>, <<"V","a","l","u","e">>),
    Header(<<"K">>, <<"a",COLON,"b">>) }

\* the setter calls both builders take
SharedCalls ==
    {Call("version", v) : v \in Versions}
    \cup {Call("body", b) : b \in BodyTexts}
    \cup {Call("headers", hs) : hs \in SetterHeaderLists}
    \cup {Call("header", h) : h \in SetterHeaders}

RequestCalls ==
    SharedCalls
    \cup {Call("url", u) : u \in UrlPool}
    \cup {Call("method", m) : m \in {"Get", "Post"}}

ResponseCalls ==
    SharedCalls \cup {Call("status", c) : c \in {"Ok", "NotFound"}}

\* builder.<setter>(arg)
Apply(builder, call) ==
    CASE call.setter = "url" -> set_url(builder, call.arg)
      [] call.setter = "method" -> set_method(builder, call.arg)
      [] call.setter = "status" -> set_status(builder, call.arg)
      [] call.setter = "version" -> set_version(builder, call.arg)
      [] call.setter = "body" -> set_body(builder, call.arg)
      [] call.setter = "headers" -> set_headers(builder, call.arg)
      [] call.setter = "header" ->
            set_header(builder, call.arg.key, call.arg.value)

\* nothing is in hand
InitSetters ==
    /\ InitBuilder
    /\ res_packet = None

\* req_builder = req_builder.<setter>(arg), the call recorded
request_builder_call ==
    /\ RequestAssembling
    /\ Len(setter_calls) < MaxSetterCalls
    /\ \E call \in RequestCalls :
        /\ req_builder' = Some(Apply(req_builder[1], call))
        /\ setter_calls' = Append(setter_calls, call)
    /\ UNCHANGED <<res_builder, res_built, res_packet, res_wire>>
    /\ UNCHANGED <<readerVars, packetVars, objVars>>

\* res_builder = res_builder.<setter>(arg), the call recorded
response_builder_call ==
    /\ ResponseAssembling
    /\ Len(setter_calls) < MaxSetterCalls
    /\ \E call \in ResponseCalls :
        /\ res_builder' = Some(Apply(res_builder[1], call))
        /\ setter_calls' = Append(setter_calls, call)
    /\ UNCHANGED <<req_builder, res_built, res_packet, res_wire>>
    /\ UNCHANGED <<readerVars, packetVars, objVars>>

NextSetters ==
    \/ request_builder_new
    \/ request_builder_call
    \/ response_builder_new
    \/ response_builder_call

\* a new builder and up to MaxSetterCalls setter calls on it
SpecSetters == InitSetters /\ [][NextSetters]_vars

---------------------------------------------------------------------------
(* The three reader functions on sources that keep answering *)

\* a header block that announces a body of two bytes
TwoByteHeader ==
    <<"C","o","n","t","e","n","t","-","L","e","n","g","t","h",COLON,SP,"2">>
    \o CRLFCRLF

\* the sources: empty, without a delimiter, with a CRLF, with a CRLFCRLF,
\* a header block cut short, and a message whose announced body is there
\* in full, with a byte behind it, in part, or not at all
FairStreams == {
    <<>>,
    <<"a">>,
    <<"a", CR, LF, "b">>,
    <<CR, LF, CR, LF, "a">>,
    <<"H", COLON, "a", CR, LF>>,
    <<"H", COLON, "a", CR, LF, CR, LF, "b", CR, LF>>,
    TwoByteHeader \o <<"a", "b">>,
    TwoByteHeader \o <<"a", "b", "c">>,
    TwoByteHeader \o <<"a">>,
    TwoByteHeader }

InitReader ==
    /\ stream \in FairStreams
    /\ ReaderIdle
    /\ PacketIdle
    /\ BuilderIdle
    /\ ObjIdle

NextReader ==
    \/ read_until_crlf_call
    \/ read_until_crlf_loop
    \/ read_until_double_crlf_call
    \/ read_until_double_crlf_loop
    \/ read_full_packet_call
    \/ read_headers_loop
    \/ read_body_loop

\* what a read into a buffer of n bytes gives when it does not fail
Answers(n) == SourceRead(n) \ {-1}

\* Weak fairness of the pass of the header loop whose read answers. That
\* pass is enabled exactly while pc = "read_headers": it takes a byte or
\* leaves the loop, so it always changes the state.
HeaderLoopRuns ==
    (<>[](pc = "read_headers")) =>
        []<><<\E n \in Answers(1) : read_headers_pass(n)>>_vars

\* A loop that is entered runs its next pass: the code is sequential and
\* every read of the source answers. Whether a read fails is up to the
\* source, so no pass is ever required to fail.
FairReader ==
    /\ WF_vars(\E n \in Answers(1) : read_until_crlf_pass(n))
    /\ WF_vars(\E n \in Answers(1) : read_until_double_crlf_pass(n))
    /\ HeaderLoopRuns
    /\ WF_vars(\E n \in Answers(content_length - total_read) :
                    read_body_pass(n))

\* the three functions called on a finite source, every loop kept running
SpecReaderFair == InitReader /\ [][NextReader]_vars /\ FairReader

---------------------------------------------------------------------------
(* Properties of the stream reader *)

\* the bytes the source still held when the running (or last) call began
Remaining == SubSeq(stream, call_start + 1, Len(stream))

\* some prefix of s ends with term
HasPrefixEnding(s, term) ==
    \E k \in 1..Len(s) : EndsWith(SubSeq(s, 1, k), term)

\* the shortest prefix of s that ends with term; s when no prefix does
ShortestPrefixEnding(s, term) ==
    IF HasPrefixEnding(s, term)
    THEN SubSeq(s, 1, CHOOSE k \in 1..Len(s) :
                        /\ EndsWith(SubSeq(s, 1, k), term)
                        /\ \A j \in 1..(k-1) : ~EndsWith(SubSeq(s, 1, j), term))
    ELSE s

\* the header block of the message the call was entered on
HeaderBlock == ShortestPrefixEnding(Remaining, CRLFCRLF)

\* a line that starts, in any letter case, with content-length:
IsContentLengthLine(l) ==
    /\ Len(l) >= Len(ContentLengthPrefix)
    /\ to_ascii_lowercase(SubSeq(l, 1, Len(ContentLengthPrefix)))
         = ContentLengthPrefix

\* a base-10 non-negative integer: decimal digits, at most one '+' before
IsNonNegativeDecimal(v) ==
    LET ds == IF v # <<>> /\ v[1] = "+" THEN SubSeq(v, 2, Len(v)) ELSE v
    IN ds # <<>> /\ \A i \in 1..Len(ds) : IsDigit(ds[i])

\* what the first content-length line of header block hb announces
Announced(hb) ==
    LET ls == Lines(hb)
        cl == {i \in 1..Len(ls) : IsContentLengthLine(ls[i])}
    IN IF cl = {} THEN [found |-> FALSE, valid |-> FALSE, value |-> 0]
       ELSE LET first == CHOOSE i \in cl : \A j \in cl : i <= j
                v == Trim(SubSeq(ls[first], Len(ContentLengthPrefix) + 1,
                                 Len(ls[first])))
                ds == IF v # <<>> /\ v[1] = "+" THEN SubSeq(v, 2, Len(v)) ELSE v
            IN IF IsNonNegativeDecimal(v)
               THEN [found |-> TRUE, valid |-> TRUE, value |-> DecimalValue(ds)]
               ELSE [found |-> TRUE, valid |-> FALSE, value |-> 0]

FullPacketReturned ==
    pc = "idle" /\ ret.op = "read_full_packet" /\ ret.kind # "SourceError"

\* C4: whenever read_full_packet returns Ok, it has consumed exactly the
\* header block through the first CRLFCRLF plus the N bytes announced by the
\* first content-length line (N = 0 and no body when there is no such line);
\* the header text is that block, the body is exactly the N bytes after it,
\* and everything behind them is still unread.
C4_ExactConsumption ==
    (FullPacketReturned /\ ret.kind = "Ok") =>
        LET hb == HeaderBlock
            a == Announced(hb)
        IN /\ EndsWith(hb, CRLFCRLF)
           /\ ret.bytes = hb
           /\ a.found => a.valid
           /\ pos = call_start + Len(hb) + a.value
           /\ ret.body = IF a.found
                         THEN Some(SubSeq(stream, call_start + Len(hb) + 1,
                                          call_start + Len(hb) + a.value))
                         ELSE None

\* C4 witness: an Ok return of a two-byte body, announced by the first of
\* several content-length lines, with bytes left unread behind it
C4_Witness ==
    /\ FullPacketReturned /\ ret.kind = "Ok"
    /\ ret.body = Some(<<"a", "b">>)
    /\ pos < Len(stream)
    /\ Cardinality({i \in 1..Len(Lines(ret.bytes)) :
                      IsContentLengthLine(Lines(ret.bytes)[i])}) >= 2

\* the source runs dry inside the message: before the CRLFCRLF, or after a
\* well-formed header block but before all announced body bytes
Truncated ==
    \/ ~HasPrefixEnding(Remaining, CRLFCRLF)
    \/ /\ IsUtf8(HeaderBlock)
       /\ Announced(HeaderBlock).valid
       /\ Len(Remaining) < Len(HeaderBlock) + Announced(HeaderBlock).value

\* C5: when the source is exhausted before the CRLFCRLF, or before all the
\* announced body bytes, read_full_packet fails with UnexpectedEof and
\* returns neither header text nor body.
C5_NoTruncatedMessage ==
    (FullPacketReturned /\ Truncated) =>
        ret = Returned("read_full_packet", Err("UnexpectedEof"))

\* C5 witness: the source ended after part of the announced body was read
C5_Witness ==
    /\ FullPacketReturned
    /\ ret.kind = "UnexpectedEof"
    /\ HasPrefixEnding(Remaining, CRLFCRLF)
    /\ pos = Len(stream)
    /\ pos > call_start + Len(HeaderBlock)

\* C6: with a complete header block, Content-Length 0 gives the header text
\* and a present, empty body; no content-length line gives the header text
\* and no body; the header text is the whole block through its CRLFCRLF.
C6_EmptyBodyIsNotNoBody ==
    (/\ FullPacketReturned
     /\ HasPrefixEnding(Remaining, CRLFCRLF)
     /\ IsUtf8(HeaderBlock)) =>
        LET a == Announced(HeaderBlock)
        IN /\ ~a.found =>
                ret = Returned("read_full_packet", Ok(HeaderBlock, None))
           /\ (a.valid /\ a.value = 0) =>
                ret = Returned("read_full_packet", Ok(HeaderBlock, Some(<<>>)))

\* C6 witness: a Content-Length of 0 returned with bytes left in the source
C6_Witness ==
    /\ FullPacketReturned
    /\ ret.kind = "Ok"
    /\ ret.body = Some(<<>>)
    /\ EndsWith(ret.bytes, CRLFCRLF)
    /\ pos < Len(stream)

\* C9: when the first content-length line of a complete header block has a
\* value that, trimmed, is no base-10 non-negative integer, read_full_packet
\* fails with InvalidData and has read nothing behind the header block.
C9_BadContentLength ==
    (/\ FullPacketReturned
     /\ HasPrefixEnding(Remaining, CRLFCRLF)
     /\ Announced(HeaderBlock).found
     /\ ~Announced(HeaderBlock).valid) =>
        /\ ret = Returned("read_full_packet", Err("InvalidData"))
        /\ pos = call_start + Len(HeaderBlock)

\* C9 witness: a text header block with a bad content-length value was
\* rejected while bytes were left in the source
C9_Witness ==
    /\ FullPacketReturned
    /\ ret.kind = "InvalidData"
    /\ HasPrefixEnding(Remaining, CRLFCRLF)
    /\ IsUtf8(HeaderBlock)
    /\ Announced(HeaderBlock).found
    /\ ~Announced(HeaderBlock).valid
    /\ pos < Len(stream)

ScanReturned(op) ==
    pc = "idle" /\ ret.op = op /\ ret.kind # "SourceError"

\* C7: read_until_crlf returns Ok with the shortest prefix of what the
\* source held that ends with CRLF, read_until_double_crlf the shortest one
\* that ends with CRLFCRLF, terminator included; when there is no such
\* prefix (empty source, partial terminator) they return Ok with all of it.
C7_ScanResult ==
    /\ ScanReturned("read_until_crlf") =>
          ret = Returned("read_until_crlf",
                         Ok(ShortestPrefixEnding(Remaining, CRLF), None))
    /\ ScanReturned("read_until_double_crlf") =>
          ret = Returned("read_until_double_crlf",
                         Ok(ShortestPrefixEnding(Remaining, CRLFCRLF), None))

\* C7 witness: read_until_double_crlf returned a proper prefix that is
\* longer than its terminator
C7_Witness ==
    /\ ScanReturned("read_until_double_crlf")
    /\ EndsWith(ret.bytes, CRLFCRLF)
    /\ Len(ret.bytes) > Len(CRLFCRLF)
    /\ pos < Len(stream)

\* C8: a scan consumes exactly the bytes it returns: while no call has
\* failed, the results so far followed by the running call's buffer are the
\* consumed prefix of the stream, each result is the stretch of the stream
\* from where its call began to where the source now stands, and a call
\* begins right behind the previous result.
C8_ConsumedIsReturned ==
    ret.kind \in {"NoReturn", "Ok"} =>
        /\ log \o buffer = SubSeq(stream, 1, pos)
        /\ pc # "idle" => call_start = Len(log)
        /\ (pc = "idle" /\ ret.kind = "Ok") =>
              ret.bytes = SubSeq(stream, call_start + 1, pos)

\* C8 witness: a second call returned a CRLF-terminated line that begins
\* behind the first result and ends before the end of the stream
C8_Witness ==
    /\ pc = "idle"
    /\ calls >= 2
    /\ ret.kind = "Ok"
    /\ call_start > 0
    /\ found_crlf(ret.bytes)
    /\ pos < Len(stream)

---------------------------------------------------------------------------
(* Properties of the packet engines *)

\* the CRLF-separated segments of text t
Segments(t) == SplitCRLF(t)

\* t has an empty segment
HasBlank(t) == \E i \in 1..Len(Segments(t)) : Segments(t)[i] = <<>>

\* the place of the first empty segment of t
FirstBlank(t) ==
    CHOOSE i \in 1..Len(Segments(t)) :
        /\ Segments(t)[i] = <<>>
        /\ \A j \in 1..(i-1) : Segments(t)[j] # <<>>

\* the text after the blank line of t: the segments strictly after the
\* first empty one, with the CRLFs between them put back
TextAfterBlank(t) ==
    JoinCRLF(SubSeq(Segments(t), FirstBlank(t) + 1, Len(Segments(t))))

\* that text as an optional body: absent when empty
BodyAfterBlank(t) ==
    IF TextAfterBlank(t) = <<>> THEN None ELSE Some(TextAfterBlank(t))

\* a line "key:value" taken apart at its first colon
KeyValue(l) ==
    LET c == CHOOSE i \in 1..Len(l) :
                l[i] = COLON /\ \A j \in 1..(i-1) : l[j] # COLON
    IN Header(SubSeq(l, 1, c - 1), SubSeq(l, c + 1, Len(l)))

\* the version literal written on the wire
VersionLiteral(v) ==
    CASE v = "V0_9" -> <<>>
      [] v = "V1_0" -> <<"H","T","T","P","/","1",".","0">>
      [] v = "V1_1" -> <<"H","T","T","P","/","1",".","1">>

\* the request of the rendering example, and its text
ExampleRequest ==
    RequestPacket("Get", <<"/">>, "V1_0",
                  << Header(<<"K","e","y">>, <<"V","a","l","u","e">>) >>, None)
ExampleWire ==
    <<"G","E","T",SP,"/",SP,"H","T","T","P","/","1",".","0",CR,LF,
      "K","e","y",COLON,SP,"V","a","l","u","e",CR,LF,CR,LF>>

\* '<method> <url> <version literal>' CRLF, '<key>: <value>' CRLF per header
\* in order, one blank-line CRLF, then the body text if present
RenderedForm(r) ==
    JoinCRLF(<< Method_to_string(r.method) \o <<SP>> \o r.url \o <<SP>>
                \o VersionLiteral(r.version) >>
             \o [i \in 1..Len(r.headers) |->
                    r.headers[i].key \o <<COLON, SP>> \o r.headers[i].value]
             \o << <<>> >>
             \o << IF r.body = None THEN <<>> ELSE r.body[1] >>)

\* a request in hand has been rendered
Rendered == req_packet # None /\ wire # None

\* C1: request round-trip: for every RequestPacket r (any method, url,
\* version, header sequence with colon-free keys, body present or absent),
\* parsing the rendering of r succeeds, and the packet built from the parse
\* has method, url, version, header sequence and body exactly equal to r's.
C1_RequestRoundTrip ==
    /\ (Rendered /\ req_parsed # None) => req_parsed[1].ok
    /\ (Rendered /\ req_built # None) =>
            req_built[1] = Success(req_packet[1])

\* C2: on every successful request parse, the body is the CRLF-join of
\* exactly the segments strictly after the first empty segment of the
\* CRLF-split input (so it holds neither the start line nor a header line);
\* it is absent when that join is empty and present otherwise.
C2_BodyAfterBlankLine ==
    (wire # None /\ req_parsed # None /\ req_parsed[1].ok) =>
        req_parsed[1].val.body = BodyAfterBlank(wire[1])

\* text t has the form '<HTTP/1.0 or HTTP/1.1> <code> <single-word
\* canonical reason>' CRLF, zero or more 'key:value' lines each ended by
\* CRLF, a blank-line CRLF (so the empty segment is not the last one), then
\* body text; v and c are its version and the variant of its code
IsResponseText(t, v, c) ==
    /\ v \in {"V1_0", "V1_1"}
    /\ c \in StatusCodes
    /\ \A i \in 1..Len(StatusCode_description(c)) :
            ~IsWhitespace(StatusCode_description(c)[i])
    /\ Segments(t)[1] = VersionLiteral(v) \o <<SP>>
                        \o IntToString(StatusCode_as_int(c)) \o <<SP>>
                        \o StatusCode_description(c)
    /\ HasBlank(t)
    /\ FirstBlank(t) < Len(Segments(t))
    /\ \A i \in 2..(FirstBlank(t) - 1) :
            \E j \in 1..Len(Segments(t)[i]) : Segments(t)[i][j] = COLON

\* the builder the response parse of such a text is said to yield
ResponseOf(t, v, c) ==
    LET n == FirstBlank(t) - 2
    IN [version |-> Some(v),
        status |-> Some(c),
        headers |-> IF n = 0 THEN None
                    ELSE Some([i \in 1..n |-> KeyValue(Segments(t)[i + 1])]),
        body |-> BodyAfterBlank(t)]

\* C3: for any text of that form the response parse succeeds with version
\* equal to the literal's version, status equal to the variant of the code,
\* headers equal to the parsed lines in order (absent, not an empty
\* sequence, when there are none), and body equal to exactly the text after
\* the blank line (absent when that text is empty).
C3_ResponseParse ==
    (wire # None /\ res_parsed # None) =>
        \A v \in Versions, c \in StatusCodes :
            IsResponseText(wire[1], v, c) =>
                res_parsed[1] = Success(ResponseOf(wire[1], v, c))

\* C10: RequestPacket.to_string gives, for every packet, exactly
\* '<method> <url> <version literal>' CRLF, then '<key>: <value>' CRLF for
\* each header in sequence order, then one blank-line CRLF, then the body
\* text verbatim if present with no trailing CRLF; for V0_9 the version
\* literal is empty, so the start line ends with a space before its CRLF;
\* the example request renders as "GET / HTTP/1.0\r\nKey: Value\r\n\r\n".
C10_RenderedExactly ==
    /\ (req_packet # None /\ wire = None) => ENABLED request_to_string
    /\ Rendered =>
        /\ wire[1] = RenderedForm(req_packet[1])
        /\ req_packet[1] = ExampleRequest => wire[1] = ExampleWire
        /\ req_packet[1].version = "V0_9" =>
                LET start == Segments(wire[1])[1]
                IN start # <<>> /\ start[Len(start)] = SP

\* C10 witness: a V0_9 request with two headers and a body of two lines has
\* been rendered, its start line ending with a space
C10_Witness ==
    /\ Rendered
    /\ req_packet[1].version = "V0_9"
    /\ Len(req_packet[1].headers) = 2
    /\ req_packet[1].body = Some(<<"a",CR,LF,"b">>)
    /\ Segments(wire[1])[1] = <<"G","E","T",SP,"/",SP>>

---------------------------------------------------------------------------
(* Properties of the lexical value types *)

\* the places where a whitespace-separated token of s starts
TokenStarts(s) ==
    {i \in 1..Len(s) :
        ~IsWhitespace(s[i]) /\ (i = 1 \/ IsWhitespace(s[i - 1]))}

\* the number of whitespace-separated tokens of s
TokenCount(s) == Cardinality(TokenStarts(s))

\* token k of s, counted from 1
Token(s, k) ==
    LET from == CHOOSE i \in TokenStarts(s) :
                    Cardinality({j \in TokenStarts(s) : j < i}) = k - 1
        to == CHOOSE i \in from..Len(s) :
                    /\ \A j \in from..i : ~IsWhitespace(s[j])
                    /\ (i = Len(s) \/ IsWhitespace(s[i + 1]))
    IN SubSeq(s, from, to)

\* the version a request start line stands for: "ok" with the version, or
\* the name of the failure
VersionOfRequestLine(l) ==
    IF TokenCount(l) = 2 THEN [ok |-> TRUE, version |-> "V0_9", err |-> "none"]
    ELSE IF TokenCount(l) # 3
    THEN [ok |-> FALSE, version |-> "V0_9",
          err |-> "FirstLineWordCountMismatch"]
    ELSE IF Token(l, 3) = <<"H","T","T","P","/","1",".","0">>
    THEN [ok |-> TRUE, version |-> "V1_0", err |-> "none"]
    ELSE IF Token(l, 3) = <<"H","T","T","P","/","1",".","1">>
    THEN [ok |-> TRUE, version |-> "V1_1", err |-> "none"]
    ELSE [ok |-> FALSE, version |-> "V0_9", err |-> "InvalidHttpVersion"]

\* C11: the version of a request start line: exactly 2 whitespace-separated
\* tokens give V0_9 whatever they are; exactly 3 give V1_0 or V1_1 when the
\* third is literally HTTP/1.0 or HTTP/1.1 and InvalidHttpVersion otherwise;
\* any other count gives FirstLineWordCountMismatch.  The request parse
\* reports these failures before any other check: a text whose start line
\* fails this way fails the same way whatever its method and whether or
\* not it has a blank line.
C11_VersionFromRequestLine ==
    /\ (line_in # None /\ version_res # None) =>
           LET e == VersionOfRequestLine(line_in[1])
           IN /\ version_res[1].ok = e.ok
              /\ e.ok => version_res[1].val = e.version
              /\ ~e.ok => version_res[1].err = PacketErr(e.err)
    /\ (wire # None /\ req_parsed # None) =>
           LET e == VersionOfRequestLine(Segments(wire[1])[1])
           IN /\ ~e.ok => /\ ~req_parsed[1].ok
                          /\ req_parsed[1].err = PacketErr(e.err)
              /\ (e.ok /\ req_parsed[1].ok) =>
                    req_parsed[1].val.version = Some(e.version)

\* C11 witness: a text whose start line has a single token, which is no
\* method, and which has no blank line, was rejected with
\* FirstLineWordCountMismatch
C11_Witness ==
    /\ wire = Some(<<"F","O","O",CR,LF,"h","i">>)
    /\ req_parsed # None
    /\ ~req_parsed[1].ok
    /\ req_parsed[1].err = PacketErr("FirstLineWordCountMismatch")

\* C12: the integer mapping of StatusCode is a bijection on the supported
\* codes: try_from_int(as_int(c)) = c for every variant c; try_from_int(n) = c
\* implies as_int(c) = n for every integer n; no two variants share an
\* integer; an integer that is the code of no variant maps to no variant.
C12_StatusIntBijection ==
    /\ (code_in # None /\ int_in # None) =>
           \A d \in StatusCodes :
               StatusCode_as_int(d) = int_in[1] => d = code_in[1]
    /\ (code_in # None /\ int_code # None) =>
           int_code[1] = Some(code_in[1])
    /\ (int_in # None /\ int_code # None) =>
           /\ int_code[1] # None =>
                 /\ int_code[1][1] \in StatusCodes
                 /\ StatusCode_as_int(int_code[1][1]) = int_in[1]
           /\ (\A d \in StatusCodes : StatusCode_as_int(d) # int_in[1]) =>
                 int_code[1] = None

\* C12 witness: the variant Created went to 201 and came back
C12_Witness ==
    /\ code_in = Some("Created")
    /\ int_in = Some(201)
    /\ int_code = Some(Some("Created"))

\* C12 witness of the other direction: 299, the code of no variant, was
\* mapped to no variant
C12_UnsupportedInteger ==
    /\ code_in = None
    /\ int_in = Some(299)
    /\ int_code = Some(None)

---------------------------------------------------------------------------
(* Properties of the builders and of the response renderer *)

\* a response packet in hand has been rendered
ResponseRendered == res_packet # None /\ res_wire # None

\* '<version literal> <code> <canonical description>'
StatusLineOf(v, c) ==
    VersionLiteral(v) \o <<SP>> \o IntToString(StatusCode_as_int(c))
    \o <<SP>> \o StatusCode_description(c)

\* the text of a V1_0 / V1_1 response with a status: the status line and
\* its CRLF; with a header sequence, each header as '<key>: <value>' CRLF
\* and one blank-line CRLF; then the body, if any
ResponseForm(p) ==
    LET text == IF p.body = None THEN <<>> ELSE p.body[1]
        first == StatusLineOf(p.version, p.status[1])
    IN IF p.headers = None THEN first \o CRLF \o text
       ELSE JoinCRLF(<<first>>
                     \o [i \in 1..Len(p.headers[1]) |->
                            p.headers[1][i].key \o <<COLON, SP>>
                            \o p.headers[1][i].value]
                     \o << <<>> >>
                     \o <<text>>)

\* the same packet under the other of the two versions V1_0, V1_1
OtherV1(p) ==
    [p EXCEPT !.version = IF p.version = "V1_0" THEN "V1_1" ELSE "V1_0"]

\* s without its first n characters
Drop(s, n) == SubSeq(s, n + 1, Len(s))

\* C13: ResponsePacket.try_to_string for V1_0 / V1_1 fails with NoStatusCode
\* when the status is absent; otherwise it gives '<version literal> <code>
\* <canonical description>' CRLF and then, if and only if a header sequence
\* is present (even an empty one), each header as '<key>: <value>' CRLF in
\* order and one blank-line CRLF; with no header sequence no blank line is
\* written and the body, if any, follows the status line's CRLF directly.
\* V1_0 and V1_1 give the same text except for the version literal.
C13_ResponseRender ==
    (ResponseRendered /\ res_packet[1].version \in {"V1_0", "V1_1"}) =>
        LET p == res_packet[1]
            r == res_wire[1]
        IN IF p.status = None
           THEN ~r.ok /\ r.err = PacketErr("NoStatusCode")
           ELSE /\ r.ok
                /\ r.val = ResponseForm(p)
                /\ Drop(r.val, 8)
                     = Drop(ResponsePacket_try_to_string(OtherV1(p)).val, 8)

\* C13 witness: a V1_1 response with a status, a body and no header
\* sequence was rendered with the body right behind the status line
C13_Witness ==
    /\ res_packet = Some(ResponsePacket("V1_1", Some("NotFound"), None,
                                        Some(<<"h","i">>)))
    /\ res_wire = Some(Success(
         <<"H","T","T","P","/","1",".","1",SP,"4","0","4",SP,
           "N","o","t",SP,"F","o","u","n","d",CR,LF,"h","i">>))

\* C14: ResponsePacket.try_to_string for V0_9 fails with NoBody if and only
\* if the body is absent; otherwise the text is exactly the body, with no
\* status line, header or CRLF added, whatever status and headers the packet
\* carries.
C14_ResponseRenderV0_9 ==
    (ResponseRendered /\ res_packet[1].version = "V0_9") =>
        LET p == res_packet[1]
            r == res_wire[1]
        IN /\ ~r.ok <=> p.body = None
           /\ ~r.ok => r.err = PacketErr("NoBody")
           /\ r.ok => r.val = p.body[1]

\* C14 witness: a V0_9 response carrying a status and two headers was
\* rendered as its body alone
C14_Witness ==
    /\ ResponseRendered
    /\ res_packet[1].version = "V0_9"
    /\ res_packet[1].status = Some("Ok")
    /\ res_packet[1].headers # None
    /\ Len(res_packet[1].headers[1]) = 2
    /\ res_wire = Some(Success(<<"a",CR,LF,"b">>))

\* C14 witness of the failure: a V0_9 response without a body was refused
C14_NoBody ==
    /\ ResponseRendered
    /\ res_packet[1].version = "V0_9"
    /\ res_packet[1].body = None
    /\ ~res_wire[1].ok

\* the response builder in hand has been built
ResponseBuilt == res_builder # None /\ res_built # None

\* C15: ResponsePacketBuilder.try_build fails with NoVersionFound when the
\* version is absent (checked first); with V1_0 or V1_1 it fails with
\* NoStatusCode when the status is absent; with V0_9 it always succeeds,
\* even with no body, status or headers; on success the packet carries the
\* builder's version, status, headers and body unchanged.
C15_ResponseTryBuild ==
    ResponseBuilt =>
        LET b == res_builder[1]
            r == res_built[1]
        IN IF b.version = None
           THEN ~r.ok /\ r.err = PacketErr("NoVersionFound")
           ELSE IF b.version[1] \in {"V1_0", "V1_1"} /\ b.status = None
           THEN ~r.ok /\ r.err = PacketErr("NoStatusCode")
           ELSE /\ r.ok
                /\ r.val.version = b.version[1]
                /\ r.val.status = b.status
                /\ r.val.headers = b.headers
                /\ r.val.body = b.body

\* C15 witness: a builder holding nothing but the version V0_9 was built
C15_Witness ==
    /\ res_builder = Some(set_version(ResponsePacketBuilder_new, "V0_9"))
    /\ res_built # None
    /\ res_built[1].ok
    /\ res_built[1].val = ResponsePacket("V0_9", None, None, None)

\* the request builder in hand has been built
RequestBuilt == req_builder # None /\ req_built # None

\* C16: RequestPacketBuilder.try_build fails with MissingMethod if the
\* method is absent, else with MissingURL if the url is absent, else with
\* MissingVersion if the version is absent; in every other case it succeeds
\* with the builder's method, url and version, with the builder's header
\* sequence, or the empty one when the builder has none, and with the body
\* passed through unchanged.
C16_RequestTryBuild ==
    RequestBuilt =>
        LET b == req_builder[1]
            r == req_built[1]
        IN IF b.method = None
           THEN ~r.ok /\ r.err = PacketErr("MissingMethod")
           ELSE IF b.url = None
           THEN ~r.ok /\ r.err = PacketErr("MissingURL")
           ELSE IF b.version = None
           THEN ~r.ok /\ r.err = PacketErr("MissingVersion")
           ELSE /\ r.ok
                /\ r.val.method = b.method[1]
                /\ r.val.url = b.url[1]
                /\ r.val.version = b.version[1]
                /\ r.val.headers = IF b.headers = None THEN <<>>
                                   ELSE b.headers[1]
                /\ r.val.body = b.body

\* C16 witness: a builder with method, url, version and a body but no header
\* sequence was built into a packet with the empty header sequence
C16_Witness ==
    /\ RequestBuilt
    /\ req_builder[1].headers = None
    /\ req_builder[1].body = Some(<<"h","i">>)
    /\ req_built[1].ok
    /\ req_built[1].val.headers = <<>>
    /\ req_built[1].val.body = Some(<<"h","i">>)

\* the status codes a status line l is well-formed for: l has exactly 3
\* tokens, the second is a non-negative integer that is the code of the
\* variant, the third is the variant's canonical description
StatusOfLine(l) ==
    IF TokenCount(l) # 3 \/ ~IsNonNegativeDecimal(Token(l, 2)) THEN {}
    ELSE LET t == Token(l, 2)
             n == DecimalValue(IF t[1] = "+" THEN Tail(t) ELSE t)
         IN {c \in StatusCodes :
                /\ StatusCode_as_int(c) = n
                /\ StatusCode_description(c) = Token(l, 3)}

\* the canonical description of c has more than one word
ManyWords(c) ==
    \E i \in 1..Len(StatusCode_description(c)) :
        IsWhitespace(StatusCode_description(c)[i])

\* the status lines rendered, under V1_0 and V1_1, for the variants whose
\* canonical description has more than one word
ManyWordStatusLines ==
    { StatusLineOf(v, c) :
        v \in {"V1_0", "V1_1"}, c \in {d \in StatusCodes : ManyWords(d)} }

\* C17: StatusCode.try_from_first_res_line succeeds exactly when the line
\* has exactly 3 whitespace-separated tokens, token 2 is a non-negative
\* integer that is the code of a variant, and token 3 equals that variant's
\* canonical description, and then yields that variant; every other line
\* fails with InvalidStatusLine.  So the status line rendered for a variant
\* whose canonical description has more than one word is always rejected
\* with InvalidStatusLine.
C17_StatusFromResponseLine ==
    (line_in # None /\ code_res # None) =>
        LET l == line_in[1]
            r == code_res[1]
        IN /\ r.ok <=> StatusOfLine(l) # {}
           /\ r.ok => StatusOfLine(l) = {r.val}
           /\ ~r.ok => r.err = PacketErr("InvalidStatusLine")
           /\ l \in ManyWordStatusLines =>
                ~r.ok /\ r.err = PacketErr("InvalidStatusLine")

\* C17 witness: the status line rendered for 404 Not Found was rejected
C17_Witness ==
    /\ line_in = Some(<<"H","T","T","P","/","1",".","1",SP,"4","0","4",SP,
                        "N","o","t",SP,"F","o","u","n","d">>)
    /\ code_res # None
    /\ ~code_res[1].ok
    /\ code_res[1].err = PacketErr("InvalidStatusLine")

\* C17 witness of the success: the status line of 410 Gone, padded with
\* spaces and a tab, gave the variant Gone
C17_Accepted ==
    /\ line_in = Some(<<SP,"H","T","T","P","/","1",".","1",SP,SP,
                        "4","1","0",TAB,"G","o","n","e",SP>>)
    /\ code_res = Some(Success("Gone"))

\* l has a colon
HasColon(l) == \E i \in 1..Len(l) : l[i] = COLON

\* C18: Header::try_from on a line with no ':' fails with MalformedHeader
\* carrying that exact line; otherwise it succeeds with key = the text before
\* the first ':' and value = all text after the first ':' untrimmed (later
\* colons and leading whitespace stay in the value), so key + ':' + value is
\* the line.
C18_HeaderFromLine ==
    (line_in # None /\ header_res # None) =>
        LET l == line_in[1]
            r == header_res[1]
        IN IF ~HasColon(l)
           THEN ~r.ok /\ r.err = MalformedHeader(l)
           ELSE /\ r.ok
                /\ ~HasColon(r.val.key)
                /\ r.val.key \o <<COLON>> \o r.val.value = l

\* C18 witness: "a: b:c" was split into the key "a" and the value " b:c"
C18_Witness ==
    /\ line_in = Some(<<"a",COLON,SP,"b",COLON,"c">>)
    /\ header_res = Some(Success(Header(<<"a">>, <<SP,"b",COLON,"c">>)))

---------------------------------------------------------------------------
(* Properties of both engines *)

\* the lines of text t between its first line and its first blank one
HeaderLinesOf(t) == SubSeq(Segments(t), 2, FirstBlank(t) - 1)

\* headers hs are the lines ls, one header per line, in the same order
OneHeaderPerLine(hs, ls) ==
    /\ Len(hs) = Len(ls)
    /\ \A i \in 1..Len(ls) : hs[i].key \o <<COLON>> \o hs[i].value = ls[i]

\* text t has, behind its first line, one line '<key>: <value>' per header
\* of hs, in the same order
OneLinePerHeader(t, hs) ==
    /\ Len(Segments(t)) >= Len(hs) + 1
    /\ \A i \in 1..Len(hs) :
            Segments(t)[i + 1] = hs[i].key \o <<COLON, SP>> \o hs[i].value

\* C19: header order and duplicates are preserved: both parsers yield the
\* headers in the order their lines appear in the input, one header per
\* line, merging or dropping no line with an equal key; both renderers
\* write one line per header in sequence order.
C19_HeaderOrderKept ==
    /\ (wire # None /\ req_parsed # None /\ req_parsed[1].ok) =>
            /\ req_parsed[1].val.headers # None
            /\ OneHeaderPerLine(req_parsed[1].val.headers[1],
                                HeaderLinesOf(wire[1]))
    /\ (wire # None /\ res_parsed # None /\ res_parsed[1].ok) =>
            OneHeaderPerLine(IF res_parsed[1].val.headers = None THEN <<>>
                             ELSE res_parsed[1].val.headers[1],
                             HeaderLinesOf(wire[1]))
    /\ Rendered =>
            /\ OneLinePerHeader(wire[1], req_packet[1].headers)
            /\ Segments(wire[1])[Len(req_packet[1].headers) + 2] = <<>>
    /\ (ResponseRendered /\ res_wire[1].ok
        /\ res_packet[1].version # "V0_9"
        /\ res_packet[1].headers # None) =>
            /\ OneLinePerHeader(res_wire[1].val, res_packet[1].headers[1])
            /\ Segments(res_wire[1].val)[Len(res_packet[1].headers[1]) + 2]
                 = <<>>

\* C19 witness: a response text with two header lines of the same key was
\* parsed into two headers, in the order of the lines
C19_Witness ==
    /\ wire = Some(<<"H","T","T","P","/","1",".","0",SP,"2","0","0",SP,"O","K",
                     CR,LF,"K",COLON,"a",COLON,"b",CR,LF,"K",COLON,CR,LF,
                     CR,LF,"h","i">>)
    /\ res_parsed # None
    /\ res_parsed[1].ok
    /\ res_parsed[1].val.headers
         = Some(<< Header(<<"K">>, <<"a",COLON,"b">>), Header(<<"K">>, <<>>) >>)

\* C19 witness of a renderer: a request with the same header twice was
\* rendered with two equal header lines
C19_RenderedTwice ==
    /\ Rendered
    /\ Len(req_packet[1].headers) = 2
    /\ req_packet[1].headers[1] = req_packet[1].headers[2]
    /\ Segments(wire[1])[2] = Segments(wire[1])[3]

\* every character of t is whitespace (so is the empty text)
IsBlank(t) == \A i \in 1..Len(t) : IsWhitespace(t[i])

\* C20: the response parse rejects with InvalidLines every input that is
\* blank or whitespace-only and every input whose CRLF split has fewer than
\* 3 segments; both checks come before the status line is looked at, so
\* such inputs get InvalidLines whatever their first line holds.
C20_ResponseInvalidLines ==
    (wire # None /\ res_parsed # None) =>
        ((IsBlank(wire[1]) \/ Len(Segments(wire[1])) < 3) =>
            /\ ~res_parsed[1].ok
            /\ res_parsed[1].err = PacketErr("InvalidLines"))

\* C20 witness: a text of two segments whose first line names an
\* unsupported version was rejected with InvalidLines
C20_Witness ==
    /\ wire = Some(<<"H","T","T","P","/","2",".","0",SP,"2","0","0",SP,"O","K",
                     CR,LF>>)
    /\ res_parsed # None
    /\ ~res_parsed[1].ok
    /\ res_parsed[1].err = PacketErr("InvalidLines")

\* C20 witness of the first check: a whitespace-only text of three segments
\* was rejected with InvalidLines
C20_Blank ==
    /\ wire = Some(<<CR,LF,CR,LF>>)
    /\ res_parsed # None
    /\ res_parsed[1].err = PacketErr("InvalidLines")

---------------------------------------------------------------------------
(* Properties of the parsers' failures *)

\* the method literals
MethodTokens == {Method_to_string(m) : m \in Methods}

\* l is a request start line the parser accepts: a method literal, a url
\* and nothing more or a supported version literal
ValidStartLine(l) ==
    /\ VersionOfRequestLine(l).ok
    /\ Token(l, 1) \in MethodTokens

\* l is a status line the parser accepts: a supported version literal, the
\* code of a variant and the variant's description
ValidStatusLine(l) ==
    /\ StatusOfLine(l) # {}
    /\ Token(l, 1) \in {VersionLiteral("V1_0"), VersionLiteral("V1_1")}

\* the request parse of the text in hand failed with error e
RequestFailedWith(e) ==
    /\ wire # None
    /\ req_parsed # None
    /\ ~req_parsed[1].ok
    /\ req_parsed[1].err = e

\* the response parse of the text in hand failed with error e
ResponseFailedWith(e) ==
    /\ wire # None
    /\ res_parsed # None
    /\ ~res_parsed[1].ok
    /\ res_parsed[1].err = e

\* C21, as claimed: both parsers fail with NoHeaderEndFound whenever the
\* start / status line is valid and the CRLF-split segment list has no empty
\* segment.
C21_NoHeaderEnd_AsClaimed ==
    /\ (wire # None /\ req_parsed # None
        /\ ValidStartLine(Segments(wire[1])[1]) /\ ~HasBlank(wire[1])) =>
            RequestFailedWith(PacketErr("NoHeaderEndFound"))
    /\ (wire # None /\ res_parsed # None
        /\ ValidStatusLine(Segments(wire[1])[1]) /\ ~HasBlank(wire[1])) =>
            ResponseFailedWith(PacketErr("NoHeaderEndFound"))

\* C21: the request parser fails with NoHeaderEndFound when the start line
\* is valid and no segment of the CRLF split is empty; the response parser
\* does so when the status line is valid, the split has at least 3 segments
\* and none is empty (with fewer segments it fails with InvalidLines).  The
\* check comes before header parsing: a colon-less header line in such a
\* text gives NoHeaderEndFound, not MalformedHeader.
C21_NoHeaderEnd ==
    /\ (wire # None /\ req_parsed # None
        /\ ValidStartLine(Segments(wire[1])[1]) /\ ~HasBlank(wire[1])) =>
            RequestFailedWith(PacketErr("NoHeaderEndFound"))
    /\ (wire # None /\ res_parsed # None
        /\ ValidStatusLine(Segments(wire[1])[1]) /\ ~HasBlank(wire[1])) =>
            IF Len(Segments(wire[1])) >= 3
            THEN ResponseFailedWith(PacketErr("NoHeaderEndFound"))
            ELSE ResponseFailedWith(PacketErr("InvalidLines"))

\* C21 witness: a request text with a valid start line, a colon-less line
\* and no blank line was rejected with NoHeaderEndFound
C21_Witness ==
    /\ wire = Some(<<"G","E","T",SP,"/",SP,"H","T","T","P","/","1",".","0",
                     CR,LF,"n","o","c","o","l","o","n",CR,LF,"h","i">>)
    /\ RequestFailedWith(PacketErr("NoHeaderEndFound"))

\* C21 witness of the response parser: a response text of three segments
\* with a colon-less line and no blank line was rejected the same way
C21_ResponseNoHeaderEnd ==
    /\ wire = Some(<<"H","T","T","P","/","1",".","0",SP,"2","0","0",SP,"O","K",
                     CR,LF,"n","o","c","o","l","o","n",CR,LF,"h","i">>)
    /\ ResponseFailedWith(PacketErr("NoHeaderEndFound"))

\* the header lines of text t that have no colon
ColonlessHeaderLines(t) ==
    {i \in 1..Len(HeaderLinesOf(t)) : ~HasColon(HeaderLinesOf(t)[i])}

\* the first of them
FirstColonless(t) ==
    HeaderLinesOf(t)[CHOOSE i \in ColonlessHeaderLines(t) :
                        \A j \in ColonlessHeaderLines(t) : i <= j]

\* what header parsing makes of text t, whose first line is valid and which
\* has a blank line, in result r of a parser: the first header line without
\* a colon fails the whole parse with MalformedHeader of that line; without
\* such a line the parse succeeds, whatever follows the blank line
HeadersParsedAtomically(t, r) ==
    IF ColonlessHeaderLines(t) # {}
    THEN ~r.ok /\ r.err = MalformedHeader(FirstColonless(t))
    ELSE r.err.name # "MalformedHeader"

\* a MalformedHeader failure r on text t names a header line of t, one
\* between the first line and the first blank one
NamesHeaderLine(t, r) ==
    (~r.ok /\ r.err.name = "MalformedHeader") =>
        /\ HasBlank(t)
        /\ ColonlessHeaderLines(t) # {}
        /\ r.err.line = FirstColonless(t)

\* C22: both parsers parse as headers exactly the segments between the
\* first line and the first empty segment; the first of them without ':'
\* aborts the whole parse with MalformedHeader of that line and no builder
\* is returned; segments after the first empty one are never parsed as
\* headers, so a colon-less line in the body causes no MalformedHeader.
C22_HeaderScope ==
    /\ (wire # None /\ req_parsed # None) =>
            /\ NamesHeaderLine(wire[1], req_parsed[1])
            /\ (ValidStartLine(Segments(wire[1])[1]) /\ HasBlank(wire[1])) =>
                    /\ HeadersParsedAtomically(wire[1], req_parsed[1])
                    /\ ColonlessHeaderLines(wire[1]) = {} => req_parsed[1].ok
    /\ (wire # None /\ res_parsed # None) =>
            /\ NamesHeaderLine(wire[1], res_parsed[1])
            /\ (ValidStatusLine(Segments(wire[1])[1]) /\ HasBlank(wire[1])) =>
                    /\ HeadersParsedAtomically(wire[1], res_parsed[1])
                    /\ (ColonlessHeaderLines(wire[1]) = {}
                        /\ Len(Segments(wire[1])) >= 3) => res_parsed[1].ok

\* C22 witness: a request text whose second header line has no colon was
\* rejected with MalformedHeader of that line
C22_Witness ==
    /\ wire = Some(<<"G","E","T",SP,"/",SP,"H","T","T","P","/","1",".","0",
                     CR,LF,"K","e","y",COLON,SP,"V","a","l","u","e",
                     CR,LF,"n","o","c","o","l","o","n",CR,LF,CR,LF,"h","i">>)
    /\ RequestFailedWith(MalformedHeader(<<"n","o","c","o","l","o","n">>))

\* C22 witness of the body: a response text whose body lines have no colon
\* was parsed
C22_ColonlessBody ==
    /\ wire = Some(<<"H","T","T","P","/","1",".","0",SP,"2","0","0",SP,"O","K",
                     CR,LF,"K",COLON,CR,LF,CR,LF,"a",CR,LF,"b">>)
    /\ res_parsed # None
    /\ res_parsed[1].ok

\* C23: the request parse fails with InvalidLines when the CRLF split of
\* the input leaves no segment to parse, i.e. when there are not enough
\* lines to parse a packet: when the input is empty or holds nothing but
\* whitespace and CRLFs, so that no segment is left once the blank ones are
\* dropped.
C23_RequestInvalidLines ==
    (wire # None /\ req_parsed # None /\ IsBlank(wire[1])) =>
        RequestFailedWith(PacketErr("InvalidLines"))


---------------------------------------------------------------------------
(* Properties of the round trips *)

\* line l with one more space behind its first colon
SpaceAfterColon(l) ==
    LET c == CHOOSE i \in 1..Len(l) :
                l[i] = COLON /\ \A j \in 1..(i-1) : l[j] # COLON
    IN SubSeq(l, 1, c) \o <<SP>> \o SubSeq(l, c + 1, Len(l))

\* the first n characters behind the first colon of l are spaces
SpacesAfterColon(l, n) ==
    LET c == CHOOSE i \in 1..Len(l) :
                l[i] = COLON /\ \A j \in 1..(i-1) : l[j] # COLON
    IN /\ Len(l) >= c + n
       /\ \A j \in 1..n : l[c + j] = SP

\* C24: parsing a request and rendering it again duplicates the whitespace
\* behind the colon: the value is kept untrimmed and the rendering writes
\* ': ', so each header line comes back with one more space behind its
\* first colon ('Key: Value' comes back as 'Key:  Value'), each further
\* cycle adds one more, and the text of a request with a header line never
\* comes back as it was.
C24_SpaceAddedPerCycle ==
    /\ [][request_render_built =>
            LET old == HeaderLinesOf(wire[1])
                new == HeaderLinesOf(wire'[1])
            IN /\ Len(new) = Len(old)
               /\ \A i \in 1..Len(old) : new[i] = SpaceAfterColon(old[i])
               /\ (old # <<>> => wire'[1] # wire[1])]_vars
    /\ [](cycles > 0 =>
            \A i \in 1..Len(HeaderLinesOf(wire[1])) :
                SpacesAfterColon(HeaderLinesOf(wire[1])[i], cycles))

\* 'Key: Value' after two cycles: three spaces behind the colon
C24_Witness ==
    /\ cycles = 2
    /\ wire # None
    /\ HeaderLinesOf(wire[1]) =
            << <<"K","e","y",COLON,SP,SP,SP,"V","a","l","u","e">> >>


\* a response packet was rendered and the text was parsed
RenderedAndParsed ==
    /\ res_packet # None
    /\ res_wire # None
    /\ res_wire[1].ok
    /\ wire = Some(res_wire[1].val)
    /\ res_parsed # None

\* p is a V1_0 / V1_1 packet with a status, no header sequence and a body
HeaderlessWithBody(p) ==
    /\ p.version \in {"V1_0", "V1_1"}
    /\ p.status # None
    /\ p.headers = None
    /\ p.body # None

\* C25: for every V1_0 / V1_1 ResponsePacket with a status, no header
\* sequence and a body, the response parse of its rendering does not give
\* the packet back: it fails, or its headers or its body differ from the
\* packet's. The rendering has no blank line behind the status line, which
\* the parse requires: a rendering with no empty segment is rejected, with
\* InvalidLines when it has fewer than 3 segments, else with
\* InvalidStatusLine or NoHeaderEndFound.
C25_HeaderlessResponseNotReproduced ==
    (RenderedAndParsed /\ HeaderlessWithBody(res_packet[1])) =>
        LET p == res_packet[1]
            t == res_wire[1].val
            r == res_parsed[1]
        IN /\ \/ ~r.ok
              \/ r.val.headers # p.headers
              \/ r.val.body # p.body
           /\ t = StatusLineOf(p.version, p.status[1]) \o CRLF \o p.body[1]
           /\ ~HasBlank(t) =>
                /\ ~r.ok
                /\ r.err \in {PacketErr("InvalidLines"),
                              PacketErr("InvalidStatusLine"),
                              PacketErr("NoHeaderEndFound")}
                /\ Len(Segments(t)) < 3 <=> r.err = PacketErr("InvalidLines")

\* a header-less 200 response with body 'hi' was rendered and rejected
C25_Witness ==
    /\ RenderedAndParsed
    /\ res_packet[1] = ResponsePacket("V1_0", Some("Ok"), None,
                                      Some(<<"h","i">>))
    /\ res_parsed[1].err = PacketErr("InvalidLines")

\* a header-less response whose body has two lines: no blank line is found
C25_NoHeaderEnd ==
    /\ RenderedAndParsed
    /\ HeaderlessWithBody(res_packet[1])
    /\ res_parsed[1].err = PacketErr("NoHeaderEndFound")

\* a header-less response whose body starts with a blank line is parsed, to
\* a builder with another body
C25_ParsedToAnotherBody ==
    /\ RenderedAndParsed
    /\ HeaderlessWithBody(res_packet[1])
    /\ res_parsed[1].ok
    /\ res_parsed[1].val.body # res_packet[1].body


\* every field that RequestPacketBuilder::try_build asks for, and the header
\* sequence, is present in builder b
RequestFieldsPresent(b) ==
    /\ b.method # None
    /\ b.url # None
    /\ b.version # None
    /\ b.headers # None

\* the response packet in hand is the one built from the parsed builder,
\* and it was rendered
BuiltResponseRendered ==
    /\ res_built # None
    /\ res_built[1].ok
    /\ res_packet = Some(res_built[1].val)
    /\ res_wire # None

\* C26: after a successful parse the chain parse, build, render never
\* fails. The builder of a successful request parse has method, url,
\* version and a header sequence present, so try_build on it succeeds. The
\* builder of a successful response parse has version V1_0 or V1_1, never
\* V0_9, and a status, so try_build on it succeeds, and try_to_string on
\* the packet built succeeds.
C26_ChainNeverFails ==
    /\ (req_parsed # None /\ req_parsed[1].ok) =>
            RequestFieldsPresent(req_parsed[1].val)
    /\ (req_parsed # None /\ req_built # None) => req_built[1].ok
    /\ (res_parsed # None /\ res_parsed[1].ok) =>
            /\ res_parsed[1].val.version \in {Some("V1_0"), Some("V1_1")}
            /\ res_parsed[1].val.status # None
    /\ (res_parsed # None /\ res_builder # None /\ res_built # None) =>
            /\ res_builder[1] = res_parsed[1].val
            /\ res_built[1].ok
    /\ BuiltResponseRendered => res_wire[1].ok

\* a parsed request was built
C26_Witness ==
    /\ req_parsed # None
    /\ req_parsed[1].ok
    /\ req_built # None
    /\ req_built[1].ok

\* a parsed response was built and the packet was rendered
C26_ResponseChain ==
    /\ res_parsed # None
    /\ res_parsed[1].ok
    /\ cycles = 0
    /\ req_packet = None
    /\ BuiltResponseRendered
    /\ res_wire[1].ok
    /\ res_packet[1].headers = None


---------------------------------------------------------------------------
(* Properties of the setters *)

RECURSIVE HeadersPassed(_)
\* all headers passed by the calls, in call order
HeadersPassed(calls_made) ==
    IF calls_made = <<>> THEN <<>>
    ELSE LET c == Head(calls_made)
         IN (CASE c.setter = "headers" -> c.arg
               [] c.setter = "header" -> <<c.arg>>
               [] OTHER -> <<>>)
            \o HeadersPassed(Tail(calls_made))

\* places of the calls of the named setter
CallsOf(calls_made, setter) ==
    {i \in 1..Len(calls_made) : calls_made[i].setter = setter}

\* the argument of the most recent call of the named setter, if any
LastArg(calls_made, setter) ==
    IF CallsOf(calls_made, setter) = {} THEN None
    ELSE LET last == CHOOSE i \in CallsOf(calls_made, setter) :
                        \A j \in CallsOf(calls_made, setter) : j <= i
         IN Some(calls_made[last].arg)

\* the header sequence after the calls: absent when neither `header` nor
\* `headers` was called
HeadersAfter(calls_made) ==
    IF CallsOf(calls_made, "header") \cup CallsOf(calls_made, "headers") = {}
    THEN None
    ELSE Some(HeadersPassed(calls_made))

\* C27: after any sequence of setter calls on a new request or response
\* builder, the header sequence is absent if neither header nor headers
\* was called and is otherwise the concatenation, in call order, of all
\* headers passed (headers([]) on a fresh builder makes it present and
\* empty; nothing is deduplicated or overwritten); method, url, version,
\* status and body hold the argument of their most recent setter call, and
\* are absent when their setter was never called, so each setter leaves
\* every other field as it was.
C27_SettersOverAnySequence ==
    /\ (req_builder # None /\ req_built = None) =>
            req_builder[1] =
                [method |-> LastArg(setter_calls, "method"),
                 url |-> LastArg(setter_calls, "url"),
                 version |-> LastArg(setter_calls, "version"),
                 headers |-> HeadersAfter(setter_calls),
                 body |-> LastArg(setter_calls, "body")]
    /\ (res_builder # None /\ res_built = None) =>
            res_builder[1] =
                [version |-> LastArg(setter_calls, "version"),
                 status |-> LastArg(setter_calls, "status"),
                 headers |-> HeadersAfter(setter_calls),
                 body |-> LastArg(setter_calls, "body")]

\* header, headers, header and then url on a request builder
C27_Witness ==
    /\ req_builder # None
    /\ Len(setter_calls) = 4
    /\ setter_calls[1].setter = "header"
    /\ setter_calls[2].setter = "headers"
    /\ Len(setter_calls[2].arg) = 2
    /\ setter_calls[3].setter = "header"
    /\ setter_calls[4].setter = "url"
    /\ Len(req_builder[1].headers[1]) = 4

\* headers([]) as the only call on a response builder
C27_EmptyHeaders ==
    /\ res_builder # None
    /\ setter_calls = <<Call("headers", <<>>)>>
    /\ res_builder[1].headers = Some(<<>>)

\* the same setter called twice with two arguments
C27_SetTwice ==
    /\ res_builder # None
    /\ setter_calls = <<Call("status", "Ok"), Call("status", "NotFound")>>


---------------------------------------------------------------------------
(* The stream reader under different chunkings, and its termination *)

\* what read_full_packet gives on a source that holds the bytes s, and how
\* many of them it takes, told from s alone
OutcomeOf(s) ==
    IF ~HasPrefixEnding(s, CRLFCRLF)
    THEN [result |-> Err("UnexpectedEof"), consumed |-> Len(s)]
    ELSE LET hb == ShortestPrefixEnding(s, CRLFCRLF)
             a == Announced(hb)
             body == SubSeq(s, Len(hb) + 1, Len(hb) + a.value)
         IN IF ~IsUtf8(hb)
            THEN [result |-> Err("InvalidData"), consumed |-> Len(hb)]
            ELSE IF ~a.found
            THEN [result |-> Ok(hb, None), consumed |-> Len(hb)]
            ELSE IF ~a.valid
            THEN [result |-> Err("InvalidData"), consumed |-> Len(hb)]
            ELSE IF Len(s) < Len(hb) + a.value
            THEN [result |-> Err("UnexpectedEof"), consumed |-> Len(s)]
            ELSE IF ~IsUtf8(body)
            THEN [result |-> Err("InvalidData"),
                  consumed |-> Len(hb) + a.value]
            ELSE [result |-> Ok(hb, Some(body)),
                  consumed |-> Len(hb) + a.value]

\* C28: what read_full_packet gives does not depend on how the source
\* chunks its data. Whatever non-zero counts the reads of the body loop
\* deliver, the call returns what the byte stream alone determines, the
\* same header text and body or the same error kind, and has consumed the
\* number of bytes the stream alone determines; and while the body is being
\* read, the bytes received so far are the bytes of the stream behind the
\* header block, however many reads delivered them.
C28_ChunkingIndependent ==
    /\ FullPacketReturned =>
            /\ ret = Returned("read_full_packet", OutcomeOf(Remaining).result)
            /\ pos = call_start + OutcomeOf(Remaining).consumed
    /\ pc = "read_body" =>
            /\ header_buffer = HeaderBlock
            /\ content_length = Announced(HeaderBlock).value
            /\ total_read < content_length
            /\ pos = call_start + Len(HeaderBlock) + total_read
            /\ SubSeq(body_buffer, 1, total_read)
                 = SubSeq(stream, call_start + Len(HeaderBlock) + 1, pos)

\* a body of two bytes is being read, a read has delivered the first byte
\* alone, and the source holds the second
C28_Witness ==
    /\ pc = "read_body"
    /\ content_length = 2
    /\ total_read = 1
    /\ Len(stream) > pos

\* a body of two bytes was returned, after one read of two bytes or two
\* reads of one
C28_Returned ==
    /\ FullPacketReturned
    /\ ret.kind = "Ok"
    /\ ret.body # None
    /\ Len(ret.body[1]) = 2

\* the source ran dry after a read had delivered a part of the body
C28_Short ==
    /\ FullPacketReturned
    /\ ret.kind = "UnexpectedEof"
    /\ HasPrefixEnding(Remaining, CRLFCRLF)
    /\ pos = call_start + Len(HeaderBlock) + 1


\* a reader function is running
InCall == pc # "idle"

\* C29: on a source that in the end reports exhaustion (a read of 0) or an
\* error, read_until_crlf, read_until_double_crlf and read_full_packet
\* return in the end. Every pass of the body loop of read_full_packet that
\* does not leave the loop adds at least one byte to the received count,
\* which stays below the announced Content-Length inside the loop, so the
\* loop is left after at most Content-Length reads.
C29_ReaderTerminates ==
    /\ InCall ~> ~InCall
    /\ [][(read_body_loop /\ pc' = "read_body") =>
            /\ total_read' > total_read
            /\ total_read' < content_length
            /\ content_length' = content_length
            /\ Len(stream) - pos' < Len(stream) - pos]_vars
    /\ [](pc = "read_body" =>
            /\ total_read < content_length
            /\ content_length = Announced(HeaderBlock).value)

\* read_full_packet returned a body after a read that gave a part of it
\* would have found the source dry: the source is used up
C29_Witness ==
    /\ ~InCall
    /\ ret.op = "read_full_packet"
    /\ ret.kind = "Ok"
    /\ ret.body # None
    /\ ret.body[1] # <<>>
    /\ pos = Len(stream)

\* a scan returned on exhaustion, with no delimiter
C29_ScanExhausted ==
    /\ ~InCall
    /\ ret.op = "read_until_double_crlf"
    /\ ret.kind = "Ok"
    /\ ret.bytes # <<>>
    /\ ~EndsWith(ret.bytes, CRLFCRLF)
    /\ pos = Len(stream)

\* read_full_packet returned because the source ran dry inside the body
C29_BodyCutShort ==
    /\ ~InCall
    /\ ret.op = "read_full_packet"
    /\ ret.kind = "UnexpectedEof"
    /\ HasPrefixEnding(Remaining, CRLFCRLF)
    /\ pos > call_start + Len(HeaderBlock)

=============================================================================
